---- MODULE Spec2Model ----
(***************************************************************************)
(* PiBooth: the OAuth 2.0 device client of GDataOauth2Client.py.           *)
(*                                                                         *)
(* One OAuth2DeviceClient object and one thread of control calling into    *)
(* it.  A call blocks at c.perform() (a network round trip) and at         *)
(* time.sleep(); these are the places where the model yields, so an action *)
(* is the code that runs from one blocking point to the next.              *)
(*                                                                         *)
(* Python dicts are records, the JSON body of a response is a record of    *)
(* its members, a list is a sequence.  The wall clock is counted in ticks  *)
(* of 1/TicksPerSec second, so that int(time.time()) truncates.            *)
(***************************************************************************)
EXTENDS Integers, Sequences, FiniteSets, TLC

VARIABLES
    pc,           \* where the calling thread is: "idle", "authPerform", "sleep", "pollPerform"
    interval,     \* self.interval (NoAttr until an authorization response sets it)
    deviceCode,   \* self.deviceCode
    pollInterval, \* self.pollInterval
    scopeList,    \* self.scopeList
    sleeping,     \* the argument of the time.sleep() call in progress
    now,          \* the wall clock, in ticks
    sessions,     \* number of requestAuthorization() calls the caller has made so far
    trace,        \* what the current call has done so far, in order
    token,        \* the OAuth2Token object the caller holds (NoToken: None)
    sink,         \* the function given to the constructor as applicationCallback
                  \* ("applicationCallback": one that keeps nothing of what it is told)
    refreshes,    \* number of refreshToken() calls the caller has made so far
    other,        \* pc, trace and sleeping of the thread that is not the one shown
    serializedToken, \* the text given to GooglePhotoStorage() or to deserializeToken()
    gui,          \* the thread that is the one shown, and the state of saveImage()
    album         \* albumList, albumListTime, albumId and requestedAlbumId of the component

vars == <<pc, interval, deviceCode, pollInterval, scopeList, sleeping, now, sessions, trace,
          token, sink, refreshes, other, serializedToken, gui, album>>

(***************************************************************************)
(* Bounds of the model.                                                    *)
(***************************************************************************)
MaxPolls == 3
MaxSessions == 1
MaxRefreshes == 2
MaxReauths == 2
MaxGets == 2
\* longest refreshToken and longest tokenType of the tokens serialized
MaxLen == 2
MaxTypeLen == 1
\* most events in the trace of serializeToken() and deserializeToken() calls
MaxCalls == 3
\* most MSG_PROGRESS callbacks of one upload, most uploads
MaxProgress == 1
MaxUploads == 3
TicksPerSec == 2

\* ticks that a network round trip can take
Latencies == {0, 1}

(***************************************************************************)
(* Values of the program.                                                  *)
(***************************************************************************)
NoAttr == -1

clientId == "client-id"
clientSecret == "client-secret"
authServer == "https://accounts.google.com/o/oauth2/device/code"
pollServer == "https://www.googleapis.com/oauth2/v4/token"
refreshServer == pollServer
refreshGrantType == "refresh_token"
grantType == "http://oauth.net/grant_type/device/1.0"

MessageTypes ==
    {"MSG_VERIFICATION_REQUIRED", "MSG_CLIENT_WAITING", "MSG_OAUTH_SUCCESS", "MSG_OAUTH_FAILED"}

GDataOAuthError ==
    {"ERR_UNKNOWN", "ERR_NETWORK", "ERR_PROTOCOL", "ERR_CREDENTIALS", "ERR_AUTH_FAILED"}

\* OAuth2Token.__init__
OAuth2Token(refreshToken, tokenType, accessToken, expiration) ==
    [refreshToken |-> refreshToken,
     accessToken  |-> accessToken,
     tokenType    |-> tokenType,
     expiration   |-> expiration]

\* token = None
NoToken == [none |-> TRUE]

\* OAuth2Token(refreshToken, tokenType): accessToken=None, expiration=0
None == "None"

(***************************************************************************)
(* Python values that go through json: a str is its characters in order,   *)
(* each a one-character string ("LF" stands for the line feed), an int is  *)
(* its decimal digits, None is PyNone.                                     *)
(***************************************************************************)
Str(chars) == [str |-> chars]

PyInteger(digits) == [int |-> digits]

PyNone == [null |-> TRUE]

IsStr(v) == DOMAIN v = {"str"}

IsInt(v) == DOMAIN v = {"int"}

Quote == "\""

Backslash == "\\"

LF == "LF"

Digits == {"0", "1", "2", "3", "4", "5", "6", "7", "8", "9"}

\* the encoder writing every character as it is
EscapeChar_Raw(c) == <<c>>

\* json.dumps, ensure_ascii: how one character of a str is written
EscapeChar(c) ==
    CASE c = Quote     -> <<Backslash, Quote>>
      [] c = Backslash -> <<Backslash, Backslash>>
      [] c = LF        -> <<Backslash, "n">>
      [] OTHER         -> <<c>>

RECURSIVE Escape(_)
Escape(chars) ==
    IF chars = <<>> THEN <<>> ELSE EscapeChar(Head(chars)) \o Escape(Tail(chars))

\* json.dumps of a str, an int or None
dumps(v) ==
    IF IsStr(v) THEN <<Quote>> \o Escape(v.str) \o <<Quote>>
    ELSE IF IsInt(v) THEN v.int
    ELSE <<"n", "u", "l", "l">>

refreshTokenKey == Str(<<"r", "e", "f", "r", "e", "s", "h", "T", "o", "k", "e", "n">>)

token_typeKey == Str(<<"t", "o", "k", "e", "n", "_", "t", "y", "p", "e">>)

expirationKey == Str(<<"e", "x", "p", "i", "r", "a", "t", "i", "o", "n">>)

accessTokenKey == Str(<<"a", "c", "c", "e", "s", "s", "T", "o", "k", "e", "n">>)

\* a record that carries the expiration as well
serializeToken_WithExpiration(tok) ==
    <<"{">> \o dumps(refreshTokenKey) \o <<":", " ">> \o dumps(tok.refreshToken)
        \o <<",", " ">> \o dumps(token_typeKey) \o <<":", " ">> \o dumps(tok.tokenType)
        \o <<",", " ">> \o dumps(expirationKey) \o <<":", " ">>
        \o (IF tok.expiration = 0 THEN <<"0">> ELSE <<"1">>) \o <<"}">>

\* OAuth2Token.serializeToken:
\* json.dumps({'refreshToken': token.refreshToken, 'token_type': token.tokenType})
serializeToken(tok) ==
    <<"{">> \o dumps(refreshTokenKey) \o <<":", " ">> \o dumps(tok.refreshToken)
        \o <<",", " ">> \o dumps(token_typeKey) \o <<":", " ">> \o dumps(tok.tokenType)
        \o <<"}">>

(***************************************************************************)
(* json.loads, for texts whose values are strings, integers, null and      *)
(* objects of these: the decoder reads the text character by character.    *)
(***************************************************************************)
Whitespace == {" ", LF}

RECURSIVE SkipSpace(_, _)
SkipSpace(s, i) == IF i <= Len(s) /\ s[i] \in Whitespace THEN SkipSpace(s, i + 1) ELSE i

NoParse == [ok |-> FALSE]

Parsed(v, next) == [ok |-> TRUE, val |-> v, next |-> next]

\* the characters of a string from s[i] to its closing quote
RECURSIVE ScanString(_, _, _)
ScanString(s, i, acc) ==
    IF i > Len(s) THEN NoParse
    ELSE IF s[i] = Quote THEN Parsed(Str(acc), i + 1)
    ELSE IF s[i] = LF THEN NoParse
    ELSE IF s[i] = Backslash
    THEN IF i + 1 > Len(s) THEN NoParse
         ELSE IF s[i + 1] \in {Quote, Backslash, "/"}
         THEN ScanString(s, i + 2, Append(acc, s[i + 1]))
         ELSE IF s[i + 1] = "n" THEN ScanString(s, i + 2, Append(acc, LF))
         ELSE NoParse
    ELSE ScanString(s, i + 1, Append(acc, s[i]))

RECURSIVE ScanDigits(_, _)
ScanDigits(s, i) == IF i <= Len(s) /\ s[i] \in Digits THEN ScanDigits(s, i + 1) ELSE i

StartsWith(s, i, word) ==
    /\ i + Len(word) - 1 <= Len(s)
    /\ SubSeq(s, i, i + Len(word) - 1) = word

\* a string, an integer or null starting at s[i]
ScanScalar(s, i) ==
    IF i > Len(s) THEN NoParse
    ELSE IF s[i] = Quote THEN ScanString(s, i + 1, <<>>)
    ELSE IF s[i] \in Digits
    THEN IF s[i] = "0" /\ ScanDigits(s, i) > i + 1 THEN NoParse
         ELSE Parsed(PyInteger(SubSeq(s, i, ScanDigits(s, i) - 1)), ScanDigits(s, i))
    ELSE IF StartsWith(s, i, <<"n", "u", "l", "l">>) THEN Parsed(PyNone, i + 4)
    ELSE NoParse

\* the members of an object from s[i], after "{" or ",", to its "}"
RECURSIVE ScanMembers(_, _, _)
ScanMembers(s, i, acc) ==
    LET k == SkipSpace(s, i)
    IN  IF k > Len(s) \/ s[k] # Quote THEN NoParse
        ELSE LET key == ScanString(s, k + 1, <<>>)
             IN  IF ~key.ok THEN NoParse
                 ELSE LET c == SkipSpace(s, key.next)
                      IN  IF c > Len(s) \/ s[c] # ":" THEN NoParse
                          ELSE LET v == ScanScalar(s, SkipSpace(s, c + 1))
                               IN  IF ~v.ok THEN NoParse
                                   ELSE LET e == SkipSpace(s, v.next)
                                            members == Append(acc, [key   |-> key.val,
                                                                    value |-> v.val])
                                        IN  IF e > Len(s) THEN NoParse
                                            ELSE IF s[e] = ","
                                            THEN ScanMembers(s, e + 1, members)
                                            ELSE IF s[e] = "}"
                                            THEN Parsed([dict |-> members], e + 1)
                                            ELSE NoParse

ScanValue(s, i) ==
    IF i <= Len(s) /\ s[i] = "{"
    THEN IF SkipSpace(s, i + 1) <= Len(s) /\ s[SkipSpace(s, i + 1)] = "}"
         THEN Parsed([dict |-> <<>>], SkipSpace(s, i + 1) + 1)
         ELSE ScanMembers(s, i + 1, <<>>)
    ELSE ScanScalar(s, i)

Raised(exc) == [exc |-> exc]

Returned(v) == [exc |-> "", val |-> v]

\* json.loads(s): the value, or ValueError for a text that is not one JSON value
loads(s) ==
    LET r == ScanValue(s, SkipSpace(s, 1))
    IN  IF r.ok /\ SkipSpace(s, r.next) > Len(s) THEN Returned(r.val) ELSE Raised("ValueError")

IsDict(v) == DOMAIN v = {"dict"}

\* d[key]: of a dict the value its last member of that name has, KeyError
\* without one; TypeError of a value that is no dict
Subscript(d, key) ==
    IF ~IsDict(d) THEN Raised("TypeError")
    ELSE LET at == {i \in 1 .. Len(d.dict) : d.dict[i].key = key}
         IN  IF at = {} THEN Raised("KeyError")
             ELSE Returned(d.dict[CHOOSE i \in at : \A j \in at : j <= i].value)

\* a decoder that keeps the expiration it finds in the record
deserializeToken_KeepsExpiration(tokenString) ==
    LET tokenArr == loads(tokenString)
    IN  IF tokenArr.exc # "" THEN tokenArr
        ELSE LET rt == Subscript(tokenArr.val, refreshTokenKey)
                 tt == Subscript(tokenArr.val, token_typeKey)
                 ex == Subscript(tokenArr.val, expirationKey)
             IN  IF rt.exc # "" THEN rt
                 ELSE IF tt.exc # "" THEN tt
                 ELSE Returned(OAuth2Token(rt.val, tt.val, None,
                                           IF ex.exc = "" THEN 1 ELSE 0))

\* OAuth2Token.deserializeToken: the token, or the exception raised
deserializeToken(tokenString) ==
    LET tokenArr == loads(tokenString)
    IN  IF tokenArr.exc # "" THEN tokenArr
        ELSE LET rt == Subscript(tokenArr.val, refreshTokenKey)
                 tt == Subscript(tokenArr.val, token_typeKey)
             IN  IF rt.exc # "" THEN rt
                 ELSE IF tt.exc # "" THEN tt
                 ELSE Returned(OAuth2Token(rt.val, tt.val, None, 0))

\* a constructor that falls back to a token of its own when the text is bad
GooglePhotoStorage_FallsBack(text) ==
    IF text = PyNone THEN NoToken
    ELSE IF deserializeToken(text.str).exc # ""
    THEN OAuth2Token(Str(<<"a">>), Str(<<"B", "e", "a", "r", "e", "r">>), "None", 0)
    ELSE deserializeToken(text.str).val

\* GooglePhotoStorage.__init__: self.token after the constructor
GooglePhotoStorage(text) ==
    IF text = PyNone THEN NoToken
    ELSE IF deserializeToken(text.str).exc # "" THEN NoToken
    ELSE deserializeToken(text.str).val

Bearer == Str(<<"B", "e", "a", "r", "e", "r">>)

bearer == Str(<<"b", "e", "a", "r", "e", "r">>)

StoredToken == OAuth2Token(Str(<<"a", "b", "c">>), Bearer, None, 0)

\* the refresh tokens that the server of the model issues
RT1 == Str(<<"R", "T", "-", "1">>)

RT2 == Str(<<"R", "T", "-", "2">>)

RT3 == Str(<<"R", "T", "-", "3">>)

\* int(time.time()) read when the clock shows t ticks
PyIntTime(t) == t \div TicksPerSec

\* int(v) where v is a JSON integer, which json.loads() has already made a Python int
PyInt(v) == v

\* scopeString: scopeList[0], then " " + scopeList[i] for i in 1..len-1
RECURSIVE JoinFrom(_, _)
JoinFrom(list, i) ==
    IF i > Len(list) THEN "" ELSE " " \o list[i] \o JoinFrom(list, i + 1)

scopeString(list) == list[1] \o JoinFrom(list, 2)

(***************************************************************************)
(* What the server, or the transport, can answer.                          *)
(***************************************************************************)
Transport == [kind |-> "transport", errstr |-> "Couldn't connect to server"]

Http(status, body) == [kind |-> "http", status |-> status, json |-> TRUE, body |-> body]

\* a body that json.loads() rejects
NotJson(status) == [kind |-> "http", status |-> status, json |-> FALSE, body |-> [html |-> "<html>"]]

ErrorBody(e) == [error |-> e, error_description |-> "description of " \o e]

Is200(r) == r.kind = "http" /\ r.status = 200

AuthGrants ==
    {[user_code |-> "DZDR-RHZF", verification_url |-> "https://www.google.com/device",
      expires_in |-> 1800, interval |-> 5, device_code |-> "DC-1"],
     [user_code |-> "ABCD-EFGH", verification_url |-> "https://www.google.com/device/2",
      expires_in |-> 600, interval |-> 1, device_code |-> "DC-2"]}

ConformantAuth ==
    {Http(200, b) : b \in AuthGrants}
    \cup {Http(400, ErrorBody("invalid_scope")), Http(401, ErrorBody("invalid_client")),
          Http(403, ErrorBody("rate_limit_exceeded")), Http(500, ErrorBody("internal_failure"))}
    \cup {Transport}

TokenGrants ==
    {[access_token |-> "AT-1", refresh_token |-> RT1, token_type |-> Bearer, expires_in |-> 3600],
     [access_token |-> "AT-2", refresh_token |-> RT2, token_type |-> bearer, expires_in |-> 7]}

RefreshGrants ==
    {[access_token |-> "xyz", token_type |-> Bearer, expires_in |-> 3600],
     [access_token |-> "AT-3", token_type |-> bearer, expires_in |-> 7,
      refresh_token |-> RT3]}

ConformantRefresh ==
    {Http(200, b) : b \in RefreshGrants}
    \cup {Http(400, ErrorBody("invalid_grant")), Http(401, ErrorBody("invalid_client")),
          Http(403, ErrorBody("access_denied")), Http(500, ErrorBody("internal_failure"))}
    \cup {Transport}

\* the poll answers that grant, go on waiting, deny or fail to arrive
ClientPoll ==
    {Http(200, b) : b \in TokenGrants}
    \cup {Http(400, ErrorBody("authorization_pending")), Http(403, ErrorBody("access_denied")),
          Transport}

ConformantPoll ==
    {Http(200, b) : b \in TokenGrants}
    \cup {Http(400, ErrorBody("authorization_pending")), Http(400, ErrorBody("invalid_grant")),
          Http(403, ErrorBody("access_denied")), Http(429, ErrorBody("slow_down")),
          Http(401, ErrorBody("invalid_client")), Http(500, ErrorBody("internal_failure"))}
    \cup {Transport}

\* answers whose body is not JSON, or is JSON without a member the code reads
MalformedAuth ==
    {NotJson(200), NotJson(502),
     Http(200, [user_code |-> "DZDR-RHZF", verification_url |-> "https://www.google.com/device",
                expires_in |-> 1800, interval |-> 5]),
     Http(400, [message |-> "bad request"])}

MalformedPoll ==
    {NotJson(502),
     Http(200, [access_token |-> "AT-1", token_type |-> Bearer, expires_in |-> 3600]),
     Http(400, [error |-> "invalid_grant"]),
     Http(403, [message |-> "forbidden"])}

MalformedRefresh ==
    {NotJson(502),
     Http(200, [access_token |-> "xyz", expires_in |-> 3600]),
     Http(200, [token_type |-> Bearer, expires_in |-> 3600]),
     Http(400, [error |-> "invalid_grant"]),
     Http(401, [message |-> "unauthorized"])}

(***************************************************************************)
(* The trace of the current call.                                          *)
(***************************************************************************)
Ev(kind, val) == [kind |-> kind, val |-> val]

\* e is the event Ev(kind, val): the kind is compared first, the values of
\* events of different kinds are not comparable
IsEv(e, kind, val) == e.kind = kind /\ e.val = val

\* e is the callback or signal Ev(kind, [type |-> type, data |-> data])
IsMsgEv(e, kind, type, data) == e.kind = kind /\ e.val.type = type /\ e.val.data = data

\* requestAuthorization(): the request it sends
AuthRequest ==
    Ev("send", [url  |-> authServer,
                post |-> [client_id |-> clientId, scope |-> scopeString(scopeList)]])

\* self.messageReceived.emit(msg, data)
Emit(tr, msg, data) == Append(tr, Ev("emit", [type |-> msg, data |-> data]))

gDataOAuthCallback_AlwaysGivesUp(tr, msgType, msgData) ==
    CASE msgType = "MSG_VERIFICATION_REQUIRED" -> Emit(tr, "MSG_AUTH_REQUIRED", msgData)
      [] msgType = "MSG_OAUTH_SUCCESS" -> Emit(tr, "MSG_AUTH_SUCCESS", serializeToken(msgData))
      [] msgType = "MSG_OAUTH_FAILED" -> Emit(tr, "MSG_AUTH_FAILED", msgData.error_string)
      [] OTHER -> tr

gDataOAuthCallback_AlwaysRetries(tr, msgType, msgData) ==
    CASE msgType = "MSG_VERIFICATION_REQUIRED" -> Emit(tr, "MSG_AUTH_REQUIRED", msgData)
      [] msgType = "MSG_OAUTH_SUCCESS" -> Emit(tr, "MSG_AUTH_SUCCESS", serializeToken(msgData))
      [] msgType = "MSG_OAUTH_FAILED" ->
            IF token # NoToken
            THEN Append(Append(tr, Ev("call", "requestAuthorization")), AuthRequest)
            ELSE Emit(tr, "MSG_AUTH_FAILED", msgData.error_string)
      [] OTHER -> tr

(***************************************************************************)
(* GooglePhotoStorage.gDataOAuthCallback, the callback that the delivery   *)
(* component gives to its client.  It runs inside the client's call: the   *)
(* requestAuthorization() it makes on a failure is a nested call, whose    *)
(* request is sent before the failed operation has returned.               *)
(***************************************************************************)
gDataOAuthCallback(tr, msgType, msgData) ==
    CASE msgType = "MSG_VERIFICATION_REQUIRED" -> Emit(tr, "MSG_AUTH_REQUIRED", msgData)
      [] msgType = "MSG_OAUTH_SUCCESS" -> Emit(tr, "MSG_AUTH_SUCCESS", serializeToken(msgData))
      [] msgType = "MSG_OAUTH_FAILED" ->
            IF /\ msgData.error_code \in {"ERR_CREDENTIALS", "ERR_PROTOCOL"}
               /\ token # NoToken
            THEN Append(Append(tr, Ev("call", "requestAuthorization")), AuthRequest)
            ELSE Emit(tr, "MSG_AUTH_FAILED", msgData.error_string)
      [] OTHER -> tr

\* self.applicationCallback(msgType, msgData)
applicationCallback(tr, msgType, msgData) ==
    IF sink = "gDataOAuthCallback"
    THEN gDataOAuthCallback(Append(tr, Ev("notify", [type |-> msgType, data |-> msgData])),
                            msgType, msgData)
    ELSE Append(tr, Ev("notify", [type |-> msgType, data |-> msgData]))

Failed(tr, code, str) ==
    applicationCallback(tr, "MSG_OAUTH_FAILED", [error_code |-> code, error_string |-> str])

NetworkFailure_Silent(tr, r) == tr

\* except pycurl.error: the callback is told ERR_NETWORK with c.errstr()
NetworkFailure(tr, r) == Failed(tr, "ERR_NETWORK", r.errstr)

Has(body, key) == key \in DOMAIN body

Raise(tr, exc) == Append(tr, Ev("raise", exc))

\* the entry point that the caller called: the one whose request opens the trace
EntryPoint(tr) ==
    IF tr[1].val.url = authServer THEN "requestAuthorization" ELSE "refreshToken"

\* the callback has called requestAuthorization(), whose request is in flight
Reentered(tr) == tr[Len(tr)].kind = "send"

\* number of requestAuthorization() calls that the callback has made
Reauths(tr) == Cardinality({i \in 1 .. Len(tr) : tr[i].kind = "call"})

\* the function returns, and with it every call that it is nested in; after
\* a nested requestAuthorization() the call goes on inside that one
Return(tr) ==
    IF Reentered(tr) THEN tr
    ELSE tr \o [i \in 1 .. Reauths(tr) |-> Ev("return", "requestAuthorization")]
            \o <<Ev("return", EntryPoint(tr))>>

Recv(tr, r, t) == Append(tr, Ev("recv", [resp |-> r, at |-> t]))

\* the first key of reads, in order, that the body lacks (0: it has them all)
FirstMissing(body, reads) ==
    IF \A i \in 1 .. Len(reads) : Has(body, reads[i]) THEN 0
    ELSE CHOOSE i \in 1 .. Len(reads) :
            /\ ~Has(body, reads[i])
            /\ \A j \in 1 .. (i - 1) : Has(body, reads[j])

\* number of poll requests the current call has sent
NumPolls(tr) ==
    Cardinality({i \in 1 .. Len(tr) : tr[i].kind = "send" /\ tr[i].val.url = pollServer /\ Has(tr[i].val.post, "code")})

(***************************************************************************)
(* requestAuthorization(), the 200 branch: the data of                     *)
(* MSG_VERIFICATION_REQUIRED.                                              *)
(***************************************************************************)
VerificationData(reqResp) ==
    [user_code        |-> reqResp.user_code,
     verification_url |-> reqResp.verification_url,
     expires_in       |-> reqResp.expires_in]

\* startPolling() without its notification
NotifyPolling_Dropped(tr) == tr

\* startPolling(): "Notify the GUI that we are polling"
NotifyPolling(tr) == applicationCallback(tr, "MSG_CLIENT_WAITING", <<>>)

\* time.sleep() called with the field the constructor sets
SleepArg_Default(self_interval, self_pollInterval) == self_pollInterval

\* the argument of time.sleep() at the head of the polling loop
SleepArg(self_interval, self_pollInterval) == self_interval

\* the comparison with the error code misspelt
IsPending_Misspelt(errorType) == errorType = "authorization pending"

\* the 400 branch of the loop: is this the "still waiting" response?
IsPending(errorType) == errorType = "authorization_pending"

\* the "still waiting" branch telling the callback
StillWaiting_Notifies(tr) == applicationCallback(tr, "MSG_CLIENT_WAITING", <<>>)

\* print("Still waiting...")
StillWaiting(tr) == tr

\* the rate-limit branch telling the callback
TooFast_Notifies(tr) == applicationCallback(tr, "MSG_CLIENT_WAITING", <<>>)

\* print("Too fast, increasing interval..")
TooFast(tr) == tr

\* exponential instead of additive backoff
Backoff_Doubles(self_interval) == self_interval * 2

Backoff_ByOne(self_interval) == self_interval + 1

\* self.interval += 2
Backoff(self_interval) == self_interval + 2

\* OAuth2Token() called with refresh_token and token_type in each other's place
PollToken_Swapped(reqResp, time) ==
    OAuth2Token(reqResp.token_type, reqResp.refresh_token, reqResp.access_token,
                PyIntTime(time) + PyInt(reqResp.expires_in))

\* the 200 branch of the loop: the token handed to MSG_OAUTH_SUCCESS
PollToken(reqResp, time) ==
    OAuth2Token(reqResp.refresh_token, reqResp.token_type, reqResp.access_token,
                PyIntTime(time) + PyInt(reqResp.expires_in))

\* the error kinds of refreshToken() used in the loop
PollErrorCode_AsRefresh(responsecode) ==
    CASE responsecode = 400 -> "ERR_PROTOCOL"
      [] responsecode = 401 -> "ERR_CREDENTIALS"
      [] responsecode = 403 -> "ERR_AUTH_FAILED"
      [] OTHER -> "ERR_UNKNOWN"

\* the error kind of the failing branches of the loop, by response code
PollErrorCode(responsecode) ==
    CASE responsecode = 400 -> "ERR_PROTOCOL"
      [] responsecode = 403 -> "ERR_AUTH_FAILED"
      [] OTHER -> "ERR_UNKNOWN"

\* the error string of the failing branches of the loop
PollErrorString(responsecode, reqResp) ==
    IF responsecode = 403 THEN reqResp.error \o ": User cancelled authorization"
    ELSE reqResp.error \o ": " \o reqResp.error_description

\* the keys the failing branches read, in order
PollErrorReads(responsecode) ==
    IF responsecode = 403 THEN <<"error">> ELSE <<"error", "error_description">>

\* keepPolling when the 403 branch forgets keepPolling = False
keepPolling_403Keeps(responsecode, reqResp) ==
    CASE responsecode = 200 -> FALSE
      [] responsecode = 400 -> IsPending(reqResp.error)
      [] responsecode = 403 -> TRUE
      [] responsecode = 429 -> TRUE
      [] OTHER -> FALSE

\* keepPolling when the else branch forgets keepPolling = False
keepPolling_ElseKeeps(responsecode, reqResp) ==
    CASE responsecode = 200 -> FALSE
      [] responsecode = 400 -> IsPending(reqResp.error)
      [] responsecode = 403 -> FALSE
      [] responsecode = 429 -> TRUE
      [] OTHER -> TRUE

\* keepPolling when the loop gives up at the first "authorization_pending"
keepPolling_PendingStops(responsecode, reqResp) ==
    CASE responsecode = 200 -> FALSE
      [] responsecode = 400 -> FALSE
      [] responsecode = 403 -> FALSE
      [] responsecode = 429 -> TRUE
      [] OTHER -> FALSE

\* keepPolling after the branch taken for this response: the 200, 403 and else
\* branches and the 400 branch of a real error set it to False
keepPolling(responsecode, reqResp) ==
    CASE responsecode = 200 -> FALSE
      [] responsecode = 400 -> IsPending(reqResp.error)
      [] responsecode = 403 -> FALSE
      [] responsecode = 429 -> TRUE
      [] OTHER -> FALSE

AuthErrorCode_AsPoll(responsecode) ==
    CASE responsecode = 400 -> "ERR_PROTOCOL"
      [] responsecode = 403 -> "ERR_AUTH_FAILED"
      [] OTHER -> "ERR_UNKNOWN"

\* the error kind of a failed authorization request, by response code
AuthErrorCode(responsecode) ==
    CASE responsecode = 400 -> "ERR_PROTOCOL"
      [] responsecode = 401 -> "ERR_CREDENTIALS"
      [] OTHER -> "ERR_UNKNOWN"

RefreshErrorCode_AsPoll(responsecode) ==
    CASE responsecode = 400 -> "ERR_PROTOCOL"
      [] responsecode = 403 -> "ERR_AUTH_FAILED"
      [] OTHER -> "ERR_UNKNOWN"

\* the error kind of a failed refresh, by response code
RefreshErrorCode(responsecode) ==
    CASE responsecode = 401 -> "ERR_CREDENTIALS"
      [] responsecode = 400 -> "ERR_PROTOCOL"
      [] OTHER -> "ERR_UNKNOWN"

\* the error string of a failed refresh
RefreshErrorString(responsecode, reqResp) ==
    IF responsecode = 401 THEN reqResp.error
    ELSE reqResp.error \o ": " \o reqResp.error_description

\* the keys a failing branch of refreshToken() reads, in order
RefreshErrorReads(responsecode) ==
    IF responsecode = 401 THEN <<"error">> ELSE <<"error", "error_description">>

RefreshedToken_TakesRefreshToken(tok, reqResp, time) ==
    [tok EXCEPT !.accessToken  = reqResp.access_token,
                !.expiration   = PyIntTime(time) + PyInt(reqResp.expires_in),
                !.tokenType    = reqResp.token_type,
                !.refreshToken = IF Has(reqResp, "refresh_token")
                                 THEN reqResp.refresh_token ELSE @]

\* refreshToken(), the 200 branch: the three assignments to the token
RefreshedToken(tok, reqResp, time) ==
    [tok EXCEPT !.accessToken = reqResp.access_token,
                !.expiration  = PyIntTime(time) + PyInt(reqResp.expires_in),
                !.tokenType   = reqResp.token_type]

\* oAuthCallback of testGDataOauth.py and gDataOAuthCallback of the delivery
\* component keep the token they are given with MSG_OAUTH_SUCCESS (token =
\* params, self.token = msgData); the client itself keeps no token
\* (tr: the trace before this step, tr2: after it)
TokenKept(tok, tr, tr2) ==
    LET new == {i \in (Len(tr) + 1) .. Len(tr2) :
                   tr2[i].kind = "notify" /\ tr2[i].val.type = "MSG_OAUTH_SUCCESS"}
    IN  IF new = {} \/ sink = "applicationCallback" THEN tok
        ELSE tr2[CHOOSE i \in new : TRUE].val.data

\* a thread that has called nothing yet
NotStarted == [pc |-> "idle", trace |-> <<>>, sleeping |-> NoAttr]

\* GooglePhotoStorage(): no album list has been received, no album is chosen
NoAlbums == [albumList |-> <<>>, albumListTime |-> 0, albumId |-> None,
             requestedAlbumId |-> None, calls |-> 0]

\* no saveImage() has been called: a worker thread is the one shown,
\* uploadCallback is not connected to messageReceived
NoSave == [thread |-> "worker", saving |-> FALSE, connected |-> FALSE, delivered |-> FALSE,
           uploads |-> 0]

Init ==
    /\ pc = "idle"
    /\ interval = NoAttr
    /\ deviceCode = ""
    /\ pollInterval = 10
    /\ scopeList = <<"https://picasaweb.google.com/data/", "profile">>
    /\ sleeping = NoAttr
    /\ now = 0
    /\ sessions = 0
    /\ trace = <<>>
    /\ token = NoToken
    /\ sink = "applicationCallback"
    /\ refreshes = 0
    /\ other = NotStarted
    /\ gui = NoSave
    /\ album = NoAlbums
    /\ serializedToken = PyNone

(***************************************************************************)
(* requestAuthorization(), up to c.perform().                              *)
(***************************************************************************)
RequestAuthorization ==
    /\ pc = "idle"
    /\ sessions < MaxSessions
    /\ sessions' = sessions + 1
    /\ trace' = <<AuthRequest>>
    /\ pc' = "authPerform"
    /\ UNCHANGED <<interval, deviceCode, pollInterval, scopeList, sleeping, now>>
    /\ UNCHANGED <<token, sink, refreshes, other, serializedToken, gui, album>>

\* while(keepPolling): time.sleep(self.interval)
EnterSleep(tr, self_interval) ==
    /\ sleeping' = SleepArg(self_interval, pollInterval)
    /\ trace' = Append(tr, Ev("sleep", SleepArg(self_interval, pollInterval)))
    /\ pc' = "sleep"

\* the call ends, by return or by an exception that nothing catches
Leave(tr) ==
    /\ Reauths(tr) <= MaxReauths
    /\ trace' = tr
    /\ pc' = IF Reentered(tr) THEN "authPerform" ELSE "idle"
    /\ sleeping' = NoAttr

(***************************************************************************)
(* requestAuthorization(), from the answer of c.perform() to its return    *)
(* or, on a 200, through startPolling() to the first time.sleep().         *)
(***************************************************************************)
AuthPerform(Responses, Delays) ==
    /\ pc = "authPerform"
    /\ \E r \in Responses, d \in Delays :
        LET t  == now + d
            tr == Recv(trace, r, t)
        IN
        /\ now' = t
        /\ IF r.kind = "transport"
           THEN /\ Leave(Return(NetworkFailure(tr, r)))
                /\ UNCHANGED <<interval, deviceCode>>
           ELSE IF ~r.json
           THEN /\ Leave(Raise(tr, "ValueError"))
                /\ UNCHANGED <<interval, deviceCode>>
           ELSE IF r.status = 200
           THEN LET m == FirstMissing(r.body, <<"user_code", "verification_url", "expires_in",
                                                "interval", "device_code">>)
                IN  IF m = 0
                    THEN /\ interval' = r.body.interval
                         /\ deviceCode' = r.body.device_code
                         /\ EnterSleep(
                                NotifyPolling(
                                    applicationCallback(tr, "MSG_VERIFICATION_REQUIRED",
                                                        VerificationData(r.body))),
                                r.body.interval)
                    ELSE /\ interval' = IF m = 5 THEN r.body.interval ELSE interval
                         /\ UNCHANGED deviceCode
                         /\ Leave(Raise(tr, "KeyError"))
           ELSE /\ IF Has(r.body, "error")
                   THEN Leave(Return(Failed(tr, AuthErrorCode(r.status), r.body.error)))
                   ELSE Leave(Raise(tr, "KeyError"))
                /\ UNCHANGED <<interval, deviceCode>>
    /\ token' = TokenKept(token, trace, trace')
    /\ UNCHANGED <<pollInterval, scopeList, sessions, sink, refreshes, other,
                   serializedToken, gui, album>>

\* the poll request sent as if time.sleep() returned at once
PollSleep_ReturnsAtOnce ==
    /\ pc = "sleep"
    /\ now' = now
    /\ trace' = Append(trace, Ev("send", [url  |-> pollServer,
                                          post |-> [client_id     |-> clientId,
                                                    client_secret |-> clientSecret,
                                                    code          |-> deviceCode,
                                                    grant_type    |-> grantType]]))
    /\ pc' = "pollPerform"
    /\ sleeping' = NoAttr
    /\ UNCHANGED <<interval, deviceCode, pollInterval, scopeList, sessions>>
    /\ UNCHANGED <<token, sink, refreshes, other, serializedToken, gui, album>>

(***************************************************************************)
(* startPolling(): time.sleep() returns, the poll request is built from    *)
(* self.deviceCode and sent.                                               *)
(***************************************************************************)
PollSleep ==
    /\ pc = "sleep"
    /\ now' = now + sleeping * TicksPerSec
    /\ trace' = Append(trace, Ev("send", [url  |-> pollServer,
                                          post |-> [client_id     |-> clientId,
                                                    client_secret |-> clientSecret,
                                                    code          |-> deviceCode,
                                                    grant_type    |-> grantType]]))
    /\ pc' = "pollPerform"
    /\ sleeping' = NoAttr
    /\ UNCHANGED <<interval, deviceCode, pollInterval, scopeList, sessions>>
    /\ UNCHANGED <<token, sink, refreshes, other, serializedToken, gui, album>>

\* the exception that the loop's handling of an HTTP response raises ("": none)
PollRaises(r) ==
    IF ~r.json THEN "ValueError"
    ELSE IF r.status = 200
    THEN IF FirstMissing(r.body, <<"expires_in", "refresh_token", "token_type",
                                   "access_token">>) = 0 THEN "" ELSE "KeyError"
    ELSE IF r.status = 400
    THEN IF ~Has(r.body, "error") THEN "KeyError"
         ELSE IF IsPending(r.body.error) THEN ""
         ELSE IF Has(r.body, "error_description") THEN "" ELSE "KeyError"
    ELSE IF r.status = 429 THEN ""
    ELSE IF FirstMissing(r.body, PollErrorReads(r.status)) = 0 THEN "" ELSE "KeyError"

\* the branch of the loop taken for an HTTP response: what it tells the callback
PollBranch(tr, r, t) ==
    IF r.status = 200
    THEN applicationCallback(tr, "MSG_OAUTH_SUCCESS", PollToken(r.body, t))
    ELSE IF r.status = 400 /\ IsPending(r.body.error)
    THEN StillWaiting(tr)
    ELSE IF r.status = 429
    THEN TooFast(tr)
    ELSE Failed(tr, PollErrorCode(r.status), PollErrorString(r.status, r.body))

\* a response after which the loop goes round again
Continues(r) ==
    /\ r.kind = "http"
    /\ PollRaises(r) = ""
    /\ keepPolling(r.status, r.body)

(***************************************************************************)
(* startPolling(): from the answer of c.perform() to the return of         *)
(* requestAuthorization() or to the next time.sleep().                     *)
(***************************************************************************)
PollPerform(Responses, Delays) ==
    /\ pc = "pollPerform"
    /\ \E r \in Responses, d \in Delays :
        LET t  == now + d
            tr == Recv(trace, r, t)
        IN
        /\ Continues(r) => NumPolls(trace) < MaxPolls
        /\ now' = t
        /\ IF r.kind = "transport"
           THEN /\ Leave(Return(NetworkFailure(tr, r)))
                /\ UNCHANGED interval
           ELSE IF PollRaises(r) # ""
           THEN /\ Leave(Raise(tr, PollRaises(r)))
                /\ UNCHANGED interval
           ELSE /\ interval' = IF r.status = 429 THEN Backoff(interval) ELSE interval
                /\ IF keepPolling(r.status, r.body)
                   THEN EnterSleep(PollBranch(tr, r, t), interval')
                   ELSE Leave(Return(PollBranch(tr, r, t)))
    /\ token' = TokenKept(token, trace, trace')
    /\ UNCHANGED <<deviceCode, pollInterval, scopeList, sessions, sink, refreshes, other,
                   serializedToken, gui, album>>

RefreshToken_ForgetsDeviceCode ==
    /\ pc = "idle"
    /\ token # NoToken
    /\ refreshes < MaxRefreshes
    /\ refreshes' = refreshes + 1
    /\ trace' = <<Ev("send", [url  |-> refreshServer,
                              post |-> [refresh_token |-> token.refreshToken,
                                        client_id     |-> clientId,
                                        client_secret |-> clientSecret,
                                        grant_type    |-> refreshGrantType]])>>
    /\ pc' = "refreshPerform"
    /\ deviceCode' = ""
    /\ UNCHANGED <<interval, pollInterval, scopeList, sleeping, now, sessions, token, sink,
                   other, serializedToken, gui, album>>

(***************************************************************************)
(* refreshToken(token), up to c.perform().                                 *)
(***************************************************************************)
RefreshToken ==
    /\ pc = "idle"
    /\ token # NoToken
    /\ refreshes < MaxRefreshes
    /\ refreshes' = refreshes + 1
    /\ trace' = <<Ev("send", [url  |-> refreshServer,
                              post |-> [refresh_token |-> token.refreshToken,
                                        client_id     |-> clientId,
                                        client_secret |-> clientSecret,
                                        grant_type    |-> refreshGrantType]])>>
    /\ pc' = "refreshPerform"
    /\ UNCHANGED <<interval, deviceCode, pollInterval, scopeList, sleeping, now, sessions,
                   token, sink, other, serializedToken, gui, album>>

(***************************************************************************)
(* refreshToken(token), from the answer of c.perform() to its return.  In  *)
(* the 200 branch the token is assigned field by field, so a KeyError on   *)
(* token_type leaves accessToken and expiration already changed.           *)
(***************************************************************************)
RefreshPerform(Responses, Delays) ==
    /\ pc = "refreshPerform"
    /\ \E r \in Responses, d \in Delays :
        LET t  == now + d
            tr == Recv(trace, r, t)
        IN
        /\ now' = t
        /\ IF r.kind = "transport"
           THEN /\ Leave(Return(NetworkFailure(tr, r)))
                /\ UNCHANGED token
           ELSE IF ~r.json
           THEN /\ Leave(Raise(tr, "ValueError"))
                /\ UNCHANGED token
           ELSE IF r.status = 200
           THEN LET m == FirstMissing(r.body, <<"expires_in", "access_token", "token_type">>)
                IN  IF m = 0
                    THEN /\ token' = RefreshedToken(token, r.body, t)
                         /\ Leave(Return(applicationCallback(tr, "MSG_OAUTH_SUCCESS",
                                                             RefreshedToken(token, r.body, t))))
                    ELSE /\ token' = IF m = 3
                                     THEN [token EXCEPT
                                             !.accessToken = r.body.access_token,
                                             !.expiration  = PyIntTime(t) + PyInt(r.body.expires_in)]
                                     ELSE token
                         /\ Leave(Raise(tr, "KeyError"))
           ELSE /\ IF FirstMissing(r.body, RefreshErrorReads(r.status)) = 0
                   THEN Leave(Return(Failed(tr, RefreshErrorCode(r.status),
                                            RefreshErrorString(r.status, r.body))))
                   ELSE Leave(Raise(tr, "KeyError"))
                /\ UNCHANGED token
    /\ UNCHANGED <<interval, deviceCode, pollInterval, scopeList, sessions, sink,
                   refreshes, other, serializedToken, gui, album>>

Next ==
    \/ RequestAuthorization
    \/ AuthPerform(ConformantAuth, Latencies)
    \/ PollSleep
    \/ PollPerform(ConformantPoll, Latencies)

Spec == Init /\ [][Next]_vars

(***************************************************************************)
(* The delivery component, GooglePhotoStorage: it is constructed with a    *)
(* serialized token or with None, gives gDataOAuthCallback to its client   *)
(* and is asked for an access token by getAccessToken().                   *)
(***************************************************************************)
InitDelivery ==
    /\ pc = "idle"
    /\ interval = NoAttr
    /\ deviceCode = ""
    /\ pollInterval = 10
    /\ scopeList = <<"https://picasaweb.google.com/data/">>
    /\ sleeping = NoAttr
    /\ now = 0
    /\ sessions = 0
    /\ trace = <<>>
    /\ serializedToken \in {PyNone, Str(serializeToken(StoredToken))}
    /\ token = GooglePhotoStorage(serializedToken)
    /\ sink = "gDataOAuthCallback"
    /\ refreshes = 0
    /\ other = NotStarted
    /\ gui = NoSave
    /\ album = NoAlbums

\* getAccessToken()
GetAccessToken ==
    /\ sessions + refreshes < MaxGets
    /\ IF token # NoToken THEN RefreshToken ELSE RequestAuthorization

\* an answer that arrives within the tick of its request
Instant == {0}

\* the answers to the delivery component's client: those of a conformant
\* server, with one grant of each kind
DeliveryAuth ==
    {r \in ConformantAuth : Is200(r) => r.body.interval = 1}

DeliveryPoll ==
    {r \in ClientPoll : Is200(r) => r.body.expires_in = 3600}
    \cup {Http(400, ErrorBody("invalid_grant"))}

DeliveryRefresh ==
    {r \in ConformantRefresh : Is200(r) => r.body.expires_in = 3600}

NextDelivery ==
    \/ GetAccessToken
    \/ AuthPerform(DeliveryAuth, Instant)
    \/ PollSleep
    \/ PollPerform(DeliveryPoll, Instant)
    \/ RefreshPerform(DeliveryRefresh, Instant)

SpecDelivery == InitDelivery /\ [][NextDelivery]_vars

\* the delivery component when the server's answers need not be well-formed
NextDeliveryAnyBody ==
    \/ GetAccessToken
    \/ AuthPerform(DeliveryAuth \cup MalformedAuth, Instant)
    \/ PollSleep
    \/ PollPerform(DeliveryPoll \cup MalformedPoll, Instant)
    \/ RefreshPerform(DeliveryRefresh \cup MalformedRefresh, Instant)

SpecDeliveryAnyBody == InitDelivery /\ [][NextDeliveryAnyBody]_vars

\* the delivery component and a server that also answers polls with 429 and
\* grants either interval: a failed poll starts a new session in the same call
BackoffAuth ==
    {Http(200, b) : b \in AuthGrants} \cup {Http(400, ErrorBody("invalid_scope"))}

BackoffPoll ==
    {Http(429, ErrorBody("slow_down")), Http(400, ErrorBody("authorization_pending")),
     Http(400, ErrorBody("invalid_grant")),
     Http(200, [access_token |-> "AT-1", refresh_token |-> RT1, token_type |-> Bearer,
                expires_in |-> 3600])}

BackoffRefresh ==
    {Http(400, ErrorBody("invalid_grant"))}
    \cup {r \in DeliveryRefresh : Is200(r) /\ ~Has(r.body, "refresh_token")}

NextBackoff ==
    \/ GetAccessToken
    \/ AuthPerform(BackoffAuth, Instant)
    \/ PollSleep
    \/ PollPerform(BackoffPoll, Instant)
    \/ RefreshPerform(BackoffRefresh, Instant)

SpecBackoff == InitDelivery /\ [][NextBackoff]_vars

(***************************************************************************)
(* Two threads in getAccessToken() of the same delivery component, as the  *)
(* GUI starts them: one at start-up and one for each MSG_UNAUTHORIZED,     *)
(* none waiting for another.  The client's fields and the component's      *)
(* token are shared; pc, trace and sleeping are those of one thread, and   *)
(* Switch turns to the other thread.  A thread's step runs from one        *)
(* blocking call, c.perform() or time.sleep(), to the next.                *)
(***************************************************************************)
Switch ==
    /\ other' = [pc |-> pc, trace |-> trace, sleeping |-> sleeping]
    /\ pc' = other.pc
    /\ trace' = other.trace
    /\ sleeping' = other.sleeping
    /\ UNCHANGED <<interval, deviceCode, pollInterval, scopeList, now, sessions, token,
                   sink, refreshes, serializedToken, gui, album>>

\* the answers of a server that grants a device code other than the one it
\* granted last, so that two sessions never share a grant
FreshAuth ==
    {r \in ConformantAuth : Is200(r) /\ r.body.device_code # deviceCode}

ConcurrentPoll ==
    {r \in ClientPoll : r.kind = "http" /\ r.status \in {200, 400}}

ConcurrentRefresh ==
    {r \in DeliveryRefresh : r.kind = "http" /\ r.status \in {200, 400}}

NextConcurrent ==
    \/ GetAccessToken
    \/ AuthPerform(FreshAuth, Instant)
    \/ PollSleep
    \/ PollPerform(ConcurrentPoll, Instant)
    \/ RefreshPerform(ConcurrentRefresh, Instant)
    \/ Switch

SpecConcurrent == InitDelivery /\ [][NextConcurrent]_vars

(***************************************************************************)
(* A caller that holds a token or not and, whenever no call is in          *)
(* progress, calls requestAuthorization() or, with a token,                *)
(* refreshToken(token).                                                    *)
(***************************************************************************)
InitClient ==
    /\ pc = "idle"
    /\ interval = NoAttr
    /\ deviceCode = ""
    /\ pollInterval = 10
    /\ scopeList = <<"https://picasaweb.google.com/data/", "profile">>
    /\ sleeping = NoAttr
    /\ now = 0
    /\ sessions = 0
    /\ trace = <<>>
    /\ token \in {NoToken, StoredToken}
    /\ sink = "oAuthCallback"
    /\ refreshes = 0
    /\ other = NotStarted
    /\ gui = NoSave
    /\ album = NoAlbums
    /\ serializedToken = PyNone

NextClient ==
    \/ RequestAuthorization
    \/ AuthPerform(ConformantAuth, Latencies)
    \/ PollSleep
    \/ PollPerform(ClientPoll, Latencies)
    \/ RefreshToken
    \/ RefreshPerform(ConformantRefresh, Latencies)

SpecClient == InitClient /\ [][NextClient]_vars

\* the same program when the server's answers need not be well-formed
NextAnyBody ==
    \/ RequestAuthorization
    \/ AuthPerform(ConformantAuth \cup MalformedAuth, Latencies)
    \/ PollSleep
    \/ PollPerform(ClientPoll \cup MalformedPoll, Latencies)
    \/ RefreshToken
    \/ RefreshPerform(ConformantRefresh \cup MalformedRefresh, Latencies)

SpecAnyBody == InitClient /\ [][NextAnyBody]_vars

(***************************************************************************)
(* OAuth2Token.serializeToken and OAuth2Token.deserializeToken on their    *)
(* own: a token of any content is serialized, a text of any of the shapes  *)
(* below is deserialized, and the delivery component's callback is told    *)
(* MSG_OAUTH_SUCCESS with a token, whose serialized form the GUI writes to *)
(* the token file.  The trace records each call with what it was given     *)
(* and what it gave back.                                                  *)
(***************************************************************************)
Alphabet == {"a", Quote, Backslash, LF}

TypeAlphabet == {"a", LF}

Strings(chars, n) == UNION {[1 .. k -> chars] : k \in 0 .. n}

Tokens ==
    {OAuth2Token(Str(r), Str(t), a.accessToken, a.expiration) :
        r \in Strings(Alphabet, MaxLen), t \in Strings(TypeAlphabet, MaxTypeLen),
        a \in {[accessToken |-> None, expiration |-> 0],
               [accessToken |-> "AT-1", expiration |-> 3600]}}

Member(key, valueText) == dumps(key) \o <<":", " ">> \o valueText

RECURSIVE Join(_)
Join(members) ==
    IF members = <<>> THEN <<>>
    ELSE IF Len(members) = 1 THEN members[1]
    ELSE members[1] \o <<",", " ">> \o Join(Tail(members))

Object(members) == <<"{">> \o Join(members) \o <<"}">>

Stored(v) == serializeToken(OAuth2Token(v, Bearer, None, 0))

\* texts that a token file can hold, around a value v
TokenFiles(v) ==
    {Stored(v),
     Object(<<Member(accessTokenKey, dumps(Str(<<"a">>))), Member(refreshTokenKey, dumps(v)),
              Member(expirationKey, <<"1", "2">>), Member(token_typeKey, dumps(Bearer))>>),
     Object(<<Member(refreshTokenKey, dumps(v)), Member(token_typeKey, dumps(Bearer)),
              Member(accessTokenKey, dumps(PyNone))>>),
     Object(<<Member(refreshTokenKey, dumps(Str(<<"a">>))), Member(refreshTokenKey, dumps(v)),
              Member(token_typeKey, dumps(Bearer))>>),
     <<" ", LF>> \o Stored(v) \o <<LF>>,
     Object(<<Member(refreshTokenKey, dumps(v))>>),
     Object(<<Member(token_typeKey, dumps(v))>>),
     Object(<<>>),
     SubSeq(Stored(v), 1, Len(Stored(v)) - 1),
     SubSeq(Stored(v), 1, Len(Stored(v)) - 2),
     Stored(v) \o <<"a">>,
     <<Quote>> \o v.str \o <<Quote>>,
     dumps(v),
     <<"1", "2">>,
     dumps(PyNone),
     <<>>}

InitToken ==
    /\ pc = "idle"
    /\ interval = NoAttr
    /\ deviceCode = ""
    /\ pollInterval = 10
    /\ scopeList = <<"https://picasaweb.google.com/data/">>
    /\ sleeping = NoAttr
    /\ now = 0
    /\ sessions = 0
    /\ trace = <<>>
    /\ \/ /\ token \in Tokens
          /\ serializedToken = PyNone
       \/ /\ token = NoToken
          /\ \E v \in Strings(Alphabet, 1) : serializedToken \in {Str(text) : text \in TokenFiles(Str(v))}
    /\ sink = "gDataOAuthCallback"
    /\ refreshes = 0
    /\ other = NotStarted
    /\ gui = NoSave
    /\ album = NoAlbums

\* text = OAuth2Token.serializeToken(token)
SerializeToken ==
    /\ token # NoToken
    /\ Len(trace) < MaxCalls
    /\ serializedToken' = Str(serializeToken(token))
    /\ trace' = Append(trace, Ev("serializeToken", [token |-> token,
                                                    text  |-> serializeToken(token)]))
    /\ UNCHANGED <<pc, interval, deviceCode, pollInterval, scopeList, sleeping, now,
                   sessions, token, sink, refreshes, other, gui, album>>

\* token = OAuth2Token.deserializeToken(text), which may raise
DeserializeToken ==
    /\ serializedToken # PyNone
    /\ Len(trace) < MaxCalls
    /\ LET r == deserializeToken(serializedToken.str)
       IN  /\ token' = IF r.exc = "" THEN r.val ELSE token
           /\ trace' = Append(trace, Ev("deserializeToken", [text  |-> serializedToken.str,
                                                              exc   |-> r.exc,
                                                              token |-> token']))
    /\ UNCHANGED <<pc, interval, deviceCode, pollInterval, scopeList, sleeping, now,
                   sessions, sink, refreshes, other, serializedToken, gui, album>>

\* the client tells gDataOAuthCallback MSG_OAUTH_SUCCESS with the token, and
\* googlePhotosConfigCallback writes the data of MSG_AUTH_SUCCESS to the file
TokenReceived ==
    /\ token # NoToken
    /\ Len(trace) < MaxCalls
    /\ trace' = applicationCallback(trace, "MSG_OAUTH_SUCCESS", token)
    /\ serializedToken' = Str(trace'[Len(trace')].val.data)
    /\ UNCHANGED <<pc, interval, deviceCode, pollInterval, scopeList, sleeping, now,
                   sessions, token, sink, refreshes, other, gui, album>>

NextToken ==
    \/ SerializeToken
    \/ DeserializeToken
    \/ TokenReceived

SpecToken == InitToken /\ [][NextToken]_vars

(***************************************************************************)
(* The application at start-up: it reads the token file, if there is one,  *)
(* constructs the delivery component with the text and starts the thread   *)
(* that runs getAccessToken().  The file holds any of the texts above.     *)
(***************************************************************************)
InitStartup ==
    /\ pc = "idle"
    /\ interval = NoAttr
    /\ deviceCode = ""
    /\ pollInterval = 10
    /\ scopeList = <<"https://picasaweb.google.com/data/">>
    /\ sleeping = NoAttr
    /\ now = 0
    /\ sessions = 0
    /\ trace = <<>>
    /\ serializedToken \in {PyNone} \cup {Str(text) : text \in TokenFiles(Str(<<>>))
                                                          \cup TokenFiles(Str(<<"a">>))}
    /\ token = GooglePhotoStorage(serializedToken)
    /\ sink = "gDataOAuthCallback"
    /\ refreshes = 0
    /\ other = NotStarted
    /\ gui = NoSave
    /\ album = NoAlbums

\* threading.Thread(target=self.gPhotoDelivery.getAccessToken) of start-up
StartupThread ==
    /\ sessions + refreshes = 0
    /\ GetAccessToken

NextStartup ==
    \/ StartupThread
    \/ AuthPerform(FreshAuth, Instant)
    \/ PollSleep
    \/ PollPerform(ConcurrentPoll, Instant)
    \/ RefreshPerform(ConcurrentRefresh, Instant)

SpecStartup == InitStartup /\ [][NextStartup]_vars


TypeOK ==
    /\ pc \in {"idle", "authPerform", "sleep", "pollPerform", "refreshPerform",
             "uploadPerform", "albumPerform"}
    /\ interval \in Int
    /\ sessions \in 0 .. MaxSessions
    /\ refreshes \in 0 .. MaxRefreshes
    /\ sink \in {"applicationCallback", "oAuthCallback", "gDataOAuthCallback"}
    /\ token = NoToken \/ DOMAIN token = DOMAIN StoredToken
    /\ other.pc \in {"idle", "authPerform", "sleep", "pollPerform", "refreshPerform",
                   "uploadPerform"}
    /\ Reauths(trace) <= MaxReauths

(***************************************************************************)
(* Reading the trace of the current session.                               *)
(***************************************************************************)
IsNotify(e) == e.kind = "notify"

\* the notifications delivered to the callback so far, in order
Notifications(tr) == SelectSeq(tr, IsNotify)

NotifiedTypes(tr) == [i \in 1 .. Len(Notifications(tr)) |-> Notifications(tr)[i].val.type]

CountType(tr, type) ==
    Cardinality({i \in 1 .. Len(tr) : tr[i].kind = "notify" /\ tr[i].val.type = type})

Terminal(type) == type \in {"MSG_OAUTH_SUCCESS", "MSG_OAUTH_FAILED"}

\* the call of the current session is over
Ended(tr) == Len(tr) > 0 /\ tr[Len(tr)].kind \in {"return", "raise"}

\* the authorization request of the current session was answered with a 200
Granted(tr) ==
    /\ Len(tr) >= 2
    /\ tr[2].kind = "recv"
    /\ tr[2].val.resp.kind = "http"
    /\ tr[2].val.resp.status = 200

Grant(tr) == tr[2].val.resp.body

\* places of the trace where a poll was answered over HTTP
PollAnswers(tr) ==
    {i \in 3 .. Len(tr) : tr[i].kind = "recv" /\ tr[i].val.resp.kind = "http"}

PollAnswersWith(tr, status) == {i \in PollAnswers(tr) : tr[i].val.resp.status = status}

PendingAnswers(tr) ==
    {i \in PollAnswersWith(tr, 400) : tr[i].val.resp.body.error = "authorization_pending"}

\* places of the trace where a poll request was sent
PollsSent(tr) == {i \in 3 .. Len(tr) : tr[i].kind = "send"}

IsFailedWith(e, code) ==
    /\ e.kind = "notify"
    /\ e.val.type = "MSG_OAUTH_FAILED"
    /\ e.val.data.error_code = code

(***************************************************************************)
(* PicasaClient.uploadPhoto(), called by GooglePhotoStorage.saveImage()    *)
(* with uploadCallback as its callback.  The trace of an upload opens with *)
(* its request; a getAccessToken() that uploadCallback makes opens the     *)
(* trace of the client call, during which uploadPhoto() and saveImage()    *)
(* wait for its return.                                                    *)
(***************************************************************************)
PicasaMessageTypes == {"MSG_SUCCESS", "MSG_FAILED", "MSG_PROGRESS"}

PicasaErrors == {"ERR_UNKNOWN", "ERR_NETWORK", "ERR_PROTOCOL", "ERR_UNAUTHORIZED"}

albumId == "album-1"

uploadUrl == "https://picasaweb.google.com/data/feed/api" \o "/user/" \o "default"
                 \o "/albumid/" \o albumId

\* uploadPhoto(), up to c.perform(): the request with the token's access token
UploadRequest(tok) ==
    Ev("send", [url     |-> uploadUrl,
                headers |-> <<"GData-Version: 3", "Content-Type: multipart/related">>
                            \o (IF tok # NoToken
                                THEN <<"Authorization: Bearer " \o tok.accessToken>>
                                ELSE <<>>),
                post    |-> [metadata |-> "application/atom+xml", file |-> "image/jpeg"]])

UploadAnswers ==
    {Transport,
     Http(201, [text |-> "<entry/>"]),
     Http(400, [text |-> "Bad request"]),
     Http(401, [text |-> "Token invalid"]),
     Http(403, [text |-> "Forbidden"]),
     Http(500, [text |-> "Internal error"])}

\* GooglePhotoStorage.uploadCallback: photoSaveComplete is a signal, and
\* calling it instead of its emit() raises TypeError
uploadCallback(tr, msgType, data) ==
    CASE msgType = "MSG_SUCCESS" -> Raise(tr, "TypeError")
      [] msgType = "MSG_FAILED" ->
            IF ~Has(data, "error_type") THEN Raise(tr, "KeyError")
            ELSE IF data.error_type = "ERR_UNAUTHORIZED"
            THEN Append(tr, Ev("call", "getAccessToken"))
            ELSE Raise(tr, "TypeError")
      [] msgType = "MSG_PROGRESS" -> Append(tr, Ev("photoSaveUpdate", data))
      [] msgType = "MSG_AUTH_SUCCESS" -> Append(tr, Ev("call", "uploadCall"))
      [] OTHER -> tr

\* callback(msgType, msgData)
callback(tr, msgType, msgData) ==
    uploadCallback(Append(tr, Ev("notify", [type |-> msgType, data |-> msgData])),
                   msgType, msgData)

Raising(tr) == tr[Len(tr)].kind = "raise"

\* uploadPhoto() returns, unless an exception is on its way out
UploadReturns(tr) == IF Raising(tr) THEN tr ELSE Append(tr, Ev("return", "uploadPhoto"))

\* uploadPhoto(), from the answer of c.perform(): the 201 branch only prints,
\* and the else branch calls rspStr.deocde(), which bytes does not have
UploadBranch(tr, r) ==
    IF r.kind = "transport"
    THEN UploadReturns(callback(tr, "MSG_FAILED", [error_code   |-> "ERR_NETWORK",
                                                   error_string |-> r.errstr]))
    ELSE IF r.status = 201
    THEN UploadReturns(tr)
    ELSE IF r.status = 400
    THEN UploadReturns(callback(tr, "MSG_FAILED", [error_type   |-> "ERR_PROTOCOL",
                                                   error_string |-> r.body.text]))
    ELSE IF r.status \in {401, 403}
    THEN callback(tr, "MSG_FAILED", [error_type   |-> "ERR_UNAUTHORIZED",
                                     error_string |-> r.body.text])
    ELSE Raise(tr, "AttributeError")

Progress(tr) ==
    Cardinality({i \in 1 .. Len(tr) : /\ tr[i].kind = "notify"
                                      /\ tr[i].val.type = "MSG_PROGRESS"})

\* c.perform() calls the XFERINFOFUNCTION
UploadProgress ==
    /\ pc = "uploadPerform"
    /\ Progress(trace) < MaxProgress
    /\ trace' = callback(trace, "MSG_PROGRESS", [total    |-> MaxProgress,
                                                 progress |-> Progress(trace) + 1])
    /\ UNCHANGED <<pc, interval, deviceCode, pollInterval, scopeList, sleeping, now, sessions,
                   token, sink, refreshes, other, serializedToken, gui, album>>

\* uploadPhoto(), from the answer of c.perform() to its return or to the
\* getAccessToken() of uploadCallback
UploadPerform(Responses, Delays) ==
    /\ pc = "uploadPerform"
    /\ \E r \in Responses, d \in Delays :
           /\ now' = now + d
           /\ trace' = UploadBranch(Recv(trace, r, now + d), r)
    /\ pc' = "idle"
    /\ UNCHANGED <<interval, deviceCode, pollInterval, scopeList, sleeping, sessions,
                   token, sink, refreshes, other, serializedToken, gui, album>>

\* no call is in progress in the thread shown
Resting == pc = "idle" /\ (trace = <<>> \/ Ended(trace))

\* saveImage(), in a thread that onSaveButtonClicked starts: uploadCallback is
\* connected to messageReceived and uploadCall() sends the upload
SaveImage ==
    /\ gui.thread = "worker"
    /\ ~gui.saving
    /\ Resting
    /\ gui.uploads < MaxUploads
    /\ gui' = [gui EXCEPT !.saving = TRUE, !.connected = TRUE, !.delivered = FALSE,
                          !.uploads = @ + 1]
    /\ trace' = <<UploadRequest(token)>>
    /\ pc' = "uploadPerform"
    /\ UNCHANGED <<interval, deviceCode, pollInterval, scopeList, sleeping, now, sessions,
                   token, sink, refreshes, other, serializedToken, album>>

\* uploadCallback, told MSG_FAILED with ERR_UNAUTHORIZED: self.getAccessToken()
CallbackGetsToken ==
    /\ trace # <<>>
    /\ trace[Len(trace)].kind = "call"
    /\ trace[Len(trace)].val = "getAccessToken"
    /\ GetAccessToken

\* saveImage() after uploadCall(): uploadCallback is disconnected, unless an
\* exception has ended the thread
SaveImageEnds ==
    /\ gui.thread = "worker"
    /\ gui.saving
    /\ pc = "idle"
    /\ Ended(trace)
    /\ gui' = [gui EXCEPT !.saving = FALSE,
                          !.connected = IF Raising(trace) THEN @ ELSE FALSE]
    /\ UNCHANGED <<pc, interval, deviceCode, pollInterval, scopeList, sleeping, now, sessions,
                   trace, token, sink, refreshes, other, serializedToken, album>>

\* the GUI thread and the thread of saveImage() take turns
SwitchThread ==
    /\ other' = [pc |-> pc, trace |-> trace, sleeping |-> sleeping]
    /\ pc' = other.pc
    /\ trace' = other.trace
    /\ sleeping' = other.sleeping
    /\ gui' = [gui EXCEPT !.thread = IF @ = "main" THEN "worker" ELSE "main"]
    /\ UNCHANGED <<interval, deviceCode, pollInterval, scopeList, now, sessions, token, sink,
                   refreshes, serializedToken, album>>

Emitted(tr, msg) ==
    \E i \in 1 .. Len(tr) : tr[i].kind = "emit" /\ tr[i].val.type = msg

\* the event loop of the GUI thread delivers the MSG_AUTH_SUCCESS that the
\* other thread emitted to uploadCallback, a slot of an object of the GUI
\* thread, if it is still connected: self.uploadCall()
DeliverSignal ==
    /\ gui.thread = "main"
    /\ Resting
    /\ gui.connected
    /\ ~gui.delivered
    /\ Emitted(other.trace, "MSG_AUTH_SUCCESS")
    /\ gui.uploads < MaxUploads
    /\ gui' = [gui EXCEPT !.delivered = TRUE, !.uploads = @ + 1]
    /\ trace' = <<UploadRequest(token)>>
    /\ pc' = "uploadPerform"
    /\ UNCHANGED <<interval, deviceCode, pollInterval, scopeList, sleeping, now, sessions,
                   token, sink, refreshes, other, serializedToken, album>>

\* MSG_AUTH_SUCCESS emitted in the GUI thread itself calls the connected
\* uploadCallback at once: self.uploadCall()
DirectSignal ==
    /\ gui.thread = "main"
    /\ pc = "idle"
    /\ Ended(trace)
    /\ Emitted(trace, "MSG_AUTH_SUCCESS")
    /\ gui.connected
    /\ gui.uploads < MaxUploads
    /\ gui' = [gui EXCEPT !.uploads = @ + 1]
    /\ trace' = <<UploadRequest(token)>>
    /\ pc' = "uploadPerform"
    /\ UNCHANGED <<interval, deviceCode, pollInterval, scopeList, sleeping, now, sessions,
                   token, sink, refreshes, other, serializedToken, album>>

\* the delivery component, configured: it holds the token of a session
InitSave ==
    /\ pc = "idle"
    /\ interval = NoAttr
    /\ deviceCode = ""
    /\ pollInterval = 10
    /\ scopeList = <<"https://picasaweb.google.com/data/">>
    /\ sleeping = NoAttr
    /\ now = 0
    /\ sessions = 0
    /\ trace = <<>>
    /\ serializedToken = Str(serializeToken(StoredToken))
    /\ token = [StoredToken EXCEPT !.accessToken = "xyz", !.expiration = 3600]
    /\ sink = "gDataOAuthCallback"
    /\ refreshes = 0
    /\ other = NotStarted
    /\ gui = NoSave
    /\ album = NoAlbums

NextSave ==
    \/ SaveImage
    \/ UploadProgress
    \/ UploadPerform(UploadAnswers, Instant)
    \/ CallbackGetsToken
    \/ SaveImageEnds
    \/ SwitchThread
    \/ DeliverSignal
    \/ DirectSignal
    \/ AuthPerform(FreshAuth, Instant)
    \/ PollSleep
    \/ PollPerform(ConcurrentPoll, Instant)
    \/ RefreshPerform(ConcurrentRefresh, Instant)

SpecSave == InitSave /\ [][NextSave]_vars

(***************************************************************************)
(* GooglePhotoStorage.setAlbumId(), in a thread that the GUI starts, with  *)
(* PicasaClient.getAlbumList() and gDataPhotoCallback as its callback.     *)
(* The album list is kept for cacheTimeout seconds; albumListTime is 0     *)
(* until a list is received, and the clock of the run starts later than    *)
(* cacheTimeout, as time.time() does.  Times are in ticks.                 *)
(***************************************************************************)
cacheTimeout == 60

StartOfRun == (cacheTimeout + 1) * TicksPerSec

\* the time between two calls of setAlbumId()
Waits == {0, cacheTimeout * TicksPerSec, cacheTimeout * TicksPerSec + 1}

RequestedIds == {None, "A1", "A3"}

\* an atom:entry of the feed
Entry(id) ==
    ("gphoto:id" :> id) @@ ("atom:title" :> "Album " \o id)
        @@ ("atom:rights" :> "protected") @@ ("atom:name" :> "Scott McKittrick")

Feeds == {<<>>, <<Entry("A1")>>, <<Entry("A2"), Entry("A1")>>}

parseAlbumListEntry(entryElement) ==
    [title        |-> entryElement["atom:title"],
     albumId      |-> entryElement["gphoto:id"],
     accessRights |-> entryElement["atom:rights"],
     author       |-> entryElement["atom:name"]]

parseAlbumList(xmlFeed) ==
    [i \in 1 .. Len(xmlFeed) |-> parseAlbumListEntry(xmlFeed[i])]

AlbumAnswers ==
    {Http(200, [feed |-> f]) : f \in Feeds}
    \cup {Transport,
          Http(400, [text |-> "Bad request"]),
          Http(401, [text |-> "Token invalid"]),
          Http(403, [text |-> "Forbidden"]),
          Http(500, [text |-> "Internal error"])}

\* getAlbumList(), up to c.perform()
AlbumListRequest(tok) ==
    Ev("send", [url     |-> "https://picasaweb.google.com/data/feed/api" \o "/user/" \o "default",
                headers |-> <<"GData-Version: 3">>
                            \o (IF tok # NoToken
                                THEN <<"Authorization: Bearer " \o tok.accessToken>>
                                ELSE <<>>)])

checkAlbumId_AcceptsAny(albumList, id) == TRUE

\* __checkAlbumId
checkAlbumId(albumList, id) ==
    \E i \in 1 .. Len(albumList) : id = albumList[i].albumId

\* the requested id checked against the list: the component and the trace after it
CheckRequested(st, tr) ==
    IF checkAlbumId(st.albumList, st.requestedAlbumId)
    THEN [st |-> [st EXCEPT !.albumId = st.requestedAlbumId],
          tr |-> Emit(tr, "MSG_REQUEST_SUCCEEDED", None)]
    ELSE [st |-> st, tr |-> Emit(tr, "MSG_ALBUM_LIST", st.albumList)]

\* gDataPhotoCallback at time t
gDataPhotoCallback(st, tr, msgType, msgData, t) ==
    LET told == Append(tr, Ev("notify", [type |-> msgType, data |-> msgData]))
    IN  IF msgType = "MSG_SUCCESS"
        THEN CheckRequested([st EXCEPT !.albumList = msgData, !.albumListTime = t], told)
        ELSE IF msgType = "MSG_FAILED"
        THEN [st |-> st,
              tr |-> IF ~Has(msgData, "error_type") THEN Raise(told, "KeyError")
                     ELSE IF msgData.error_type = "ERR_UNAUTHORIZED"
                     THEN Emit(told, "MSG_UNAUTHORIZED", None)
                     ELSE Emit(told, "MSG_REQUEST_FAILED", msgData.error_string)]
        ELSE [st |-> st, tr |-> told]

\* getAlbumList(), from the answer of c.perform(): the callback it makes
AlbumListBranch(st, tr, r, t) ==
    IF r.kind = "transport"
    THEN gDataPhotoCallback(st, tr, "MSG_FAILED", [error_code   |-> "ERR_NETWORK",
                                                   error_string |-> r.errstr], t)
    ELSE IF r.status = 200
    THEN gDataPhotoCallback(st, tr, "MSG_SUCCESS", parseAlbumList(r.body.feed), t)
    ELSE IF r.status = 400
    THEN gDataPhotoCallback(st, tr, "MSG_FAILED", [error_type   |-> "ERR_PROTOCOL",
                                                   error_string |-> r.body.text], t)
    ELSE IF r.status \in {401, 403}
    THEN gDataPhotoCallback(st, tr, "MSG_FAILED", [error_type   |-> "ERR_UNAUTHORIZED",
                                                   error_string |-> r.body.text], t)
    ELSE [st |-> st, tr |-> Raise(tr, "AttributeError")]

\* the function returns, unless an exception is on its way out
Returns(tr, name) == IF Raising(tr) THEN tr ELSE Append(tr, Ev("return", name))

\* setAlbumId(albumId), to its return when the list is still fresh, and
\* otherwise up to c.perform() of getAlbumList()
SetAlbumId ==
    /\ pc = "idle"
    /\ album.calls < MaxCalls
    /\ \E id \in RequestedIds, d \in Waits :
        LET st == [album EXCEPT !.requestedAlbumId = id, !.calls = @ + 1]
        IN  /\ now' = now + d
            /\ IF (now + d) - album.albumListTime > cacheTimeout * TicksPerSec
               THEN /\ album' = st
                    /\ trace' = <<AlbumListRequest(token)>>
                    /\ pc' = "albumPerform"
               ELSE /\ album' = CheckRequested(st, <<>>).st
                    /\ trace' = Returns(CheckRequested(st, <<>>).tr, "setAlbumId")
                    /\ pc' = "idle"
    /\ UNCHANGED <<interval, deviceCode, pollInterval, scopeList, sleeping, sessions, token,
                   sink, refreshes, other, serializedToken, gui>>

\* getAlbumList(), from the answer of c.perform() to the return of setAlbumId()
AlbumListPerform(Responses, Delays) ==
    /\ pc = "albumPerform"
    /\ \E r \in Responses, d \in Delays :
        LET t   == now + d
            res == AlbumListBranch(album, Recv(trace, r, t), r, t)
        IN  /\ now' = t
            /\ album' = res.st
            /\ trace' = Returns(res.tr, "setAlbumId")
    /\ pc' = "idle"
    /\ UNCHANGED <<interval, deviceCode, pollInterval, scopeList, sleeping, sessions, token,
                   sink, refreshes, other, serializedToken, gui>>

\* the delivery component after an authorization, or without a token
InitAlbum ==
    /\ pc = "idle"
    /\ interval = NoAttr
    /\ deviceCode = ""
    /\ pollInterval = 10
    /\ scopeList = <<"https://picasaweb.google.com/data/">>
    /\ sleeping = NoAttr
    /\ now = StartOfRun
    /\ sessions = 0
    /\ trace = <<>>
    /\ serializedToken \in {PyNone, Str(serializeToken(StoredToken))}
    /\ token = IF serializedToken = PyNone THEN NoToken
               ELSE [StoredToken EXCEPT !.accessToken = "xyz", !.expiration = 3600]
    /\ sink = "gDataOAuthCallback"
    /\ refreshes = 0
    /\ other = NotStarted
    /\ gui = NoSave
    /\ album = NoAlbums

NextAlbum ==
    \/ SetAlbumId
    \/ AlbumListPerform(AlbumAnswers, Latencies)

SpecAlbum == InitAlbum /\ [][NextAlbum]_vars

(***************************************************************************)
(* C1: the notifications of one authorization session come in order: at    *)
(* most one MSG_VERIFICATION_REQUIRED, which nothing precedes (so it never *)
(* follows a MSG_CLIENT_WAITING), then only MSG_CLIENT_WAITING, then a     *)
(* terminal MSG_OAUTH_SUCCESS or MSG_OAUTH_FAILED, after which nothing is  *)
(* delivered; a call that has returned has delivered exactly one terminal  *)
(* notification.                                                           *)
(***************************************************************************)
C1_NotificationOrder ==
    LET n == NotifiedTypes(trace)
    IN  /\ CountType(trace, "MSG_VERIFICATION_REQUIRED") <= 1
        /\ \A i \in 1 .. Len(n) : n[i] = "MSG_VERIFICATION_REQUIRED" => i = 1
        /\ \A i \in 1 .. Len(n) : Terminal(n[i]) => i = Len(n)
        /\ (Ended(trace) /\ trace[Len(trace)].kind = "return") =>
               /\ Len(n) > 0
               /\ Terminal(n[Len(n)])
               /\ CountType(trace, "MSG_OAUTH_SUCCESS") + CountType(trace, "MSG_OAUTH_FAILED") = 1

C1_Witness ==
    /\ Ended(trace)
    /\ NotifiedTypes(trace) =
           <<"MSG_VERIFICATION_REQUIRED", "MSG_CLIENT_WAITING", "MSG_OAUTH_FAILED">>
    /\ Cardinality(PollsSent(trace)) >= 2
    /\ PollAnswersWith(trace, 500) # {}

(***************************************************************************)
(* C2: after a 200 answer to the authorization request the callback gets   *)
(* one MSG_VERIFICATION_REQUIRED carrying the server's user_code,          *)
(* verification_url and expires_in, the client holds the server's          *)
(* device_code and interval, and the first sleep of the loop lasts the     *)
(* server's interval and the first poll carries the server's device_code.  *)
(***************************************************************************)
C2_GrantRecorded ==
    Granted(trace) =>
        /\ CountType(trace, "MSG_VERIFICATION_REQUIRED") = 1
        /\ IsMsgEv(trace[3], "notify", "MSG_VERIFICATION_REQUIRED",
                   [user_code        |-> Grant(trace).user_code,
                    verification_url |-> Grant(trace).verification_url,
                    expires_in       |-> Grant(trace).expires_in])
        /\ deviceCode = Grant(trace).device_code
        /\ PollAnswersWith(trace, 429) = {} => interval = Grant(trace).interval
        /\ IsEv(trace[5], "sleep", Grant(trace).interval)
        /\ Len(trace) = 5 => pc = "sleep" /\ sleeping = Grant(trace).interval
        /\ Len(trace) >= 6 =>
               /\ trace[6].kind = "send"
               /\ trace[6].val.post.code = Grant(trace).device_code
               /\ trace[6].val.url = pollServer

\* the first poll of a session has gone out after a sleep of the granted second
C2_Witness ==
    /\ Granted(trace)
    /\ pc = "pollPerform"
    /\ Cardinality(PollsSent(trace)) = 1
    /\ Grant(trace).interval = 1
    /\ sleeping = NoAttr
    /\ now >= TicksPerSec

(***************************************************************************)
(* C3: a poll answered 400 "authorization_pending" delivers no             *)
(* MSG_OAUTH_FAILED and does not end the loop: the interval stays as it    *)
(* was, the thread sleeps that interval, and the step after the sleep is   *)
(* the next poll request.                                                  *)
(***************************************************************************)
AnsweredPending(before, after) ==
    /\ Len(after) > Len(before)
    /\ after[Len(before) + 1].kind = "recv"
    /\ after[Len(before) + 1].val.resp.kind = "http"
    /\ after[Len(before) + 1].val.resp.status = 400
    /\ after[Len(before) + 1].val.resp.body.error = "authorization_pending"

C3_PendingKeepsPolling ==
    [][ /\ (pc = "pollPerform" /\ AnsweredPending(trace, trace')) =>
              /\ pc' = "sleep"
              /\ interval' = interval
              /\ sleeping' = interval
              /\ IsEv(trace'[Len(trace')], "sleep", interval)
              /\ CountType(trace', "MSG_OAUTH_FAILED") = 0
        /\ pc = "sleep" =>
              /\ pc' = "pollPerform"
              /\ trace'[Len(trace')].kind = "send"
              /\ trace'[Len(trace')].val.post.code = deviceCode
      ]_vars

C3_Witness ==
    /\ pc = "pollPerform"
    /\ Cardinality(PendingAnswers(trace)) >= 2
    /\ PollAnswersWith(trace, 429) = {}
    /\ Cardinality(PollsSent(trace)) = Cardinality(PendingAnswers(trace)) + 1

(***************************************************************************)
(* C4, as claimed: every poll answered 400 "authorization_pending" is      *)
(* followed by one MSG_CLIENT_WAITING delivered for it.                    *)
(***************************************************************************)
C4_WaitingPerPending ==
    \A i \in PendingAnswers(trace) :
        /\ Len(trace) > i
        /\ trace[i + 1].kind = "notify"
        /\ trace[i + 1].val.type = "MSG_CLIENT_WAITING"

(***************************************************************************)
(* C4, amended: a poll answered 400 "authorization_pending" delivers       *)
(* nothing to the callback (the loop goes straight to its sleep), and no   *)
(* MSG_CLIENT_WAITING is delivered once the first poll has been sent,      *)
(* however many polls were answered that way.                              *)
(***************************************************************************)
C4_PendingSilent ==
    /\ \A i \in PendingAnswers(trace) : Len(trace) > i /\ trace[i + 1].kind = "sleep"
    /\ \A i \in PollsSent(trace) :
           \A j \in (i + 1) .. Len(trace) :
               ~(trace[j].kind = "notify" /\ trace[j].val.type = "MSG_CLIENT_WAITING")

C4_Witness ==
    /\ Ended(trace)
    /\ Cardinality(PendingAnswers(trace)) >= 2
    /\ CountType(trace, "MSG_CLIENT_WAITING") = 1

(***************************************************************************)
(* C5: a session that reaches polling delivers MSG_CLIENT_WAITING exactly  *)
(* once, with empty data, right after MSG_VERIFICATION_REQUIRED and before *)
(* any poll request is sent; a session that does not reach polling         *)
(* delivers none.                                                          *)
(***************************************************************************)
C5_WaitingAnnouncesPolling ==
    IF Granted(trace)
    THEN /\ CountType(trace, "MSG_CLIENT_WAITING") = 1
         /\ trace[3].kind = "notify" /\ trace[3].val.type = "MSG_VERIFICATION_REQUIRED"
         /\ trace[4].kind = "notify" /\ trace[4].val.type = "MSG_CLIENT_WAITING"
         /\ DOMAIN trace[4].val.data = {}
         /\ \A i \in PollsSent(trace) : i > 4
    ELSE CountType(trace, "MSG_CLIENT_WAITING") = 0

C5_Witness ==
    /\ Ended(trace)
    /\ Granted(trace)
    /\ Cardinality(PollAnswers(trace)) >= 3
    /\ CountType(trace, "MSG_OAUTH_SUCCESS") = 1

(***************************************************************************)
(* C6: in a session started by a grant with interval I, self.interval is   *)
(* always I plus twice the number of polls answered 429 so far, wherever   *)
(* among the other answers they came and also once the session has ended;  *)
(* every sleep of the loop lasts I plus twice the number of 429 answers    *)
(* received before it.                                                     *)
(***************************************************************************)
C6_IntervalBackoff ==
    Granted(trace) =>
        /\ interval = Grant(trace).interval + 2 * Cardinality(PollAnswersWith(trace, 429))
        /\ \A j \in 1 .. Len(trace) :
               trace[j].kind = "sleep" =>
                   trace[j].val = Grant(trace).interval
                       + 2 * Cardinality({i \in PollAnswersWith(trace, 429) : i < j})

C6_Witness ==
    /\ Ended(trace)
    /\ CountType(trace, "MSG_OAUTH_SUCCESS") = 1
    /\ Cardinality(PollAnswersWith(trace, 429)) >= 2
    /\ interval = Grant(trace).interval + 4

(***************************************************************************)
(* C7: a poll answered 429 calls the callback not at all and the loop      *)
(* goes on to its sleep; a poll answered with anything but 200, 400        *)
(* "authorization_pending" or 429 (a transport failure included) is        *)
(* reported by one MSG_OAUTH_FAILED, and a 200 by one MSG_OAUTH_SUCCESS.   *)
(***************************************************************************)
Answer(before, after) == after[Len(before) + 1].val.resp

Is429(r) == r.kind = "http" /\ r.status = 429

IsPendingAnswer(r) ==
    r.kind = "http" /\ r.status = 400 /\ r.body.error = "authorization_pending"

C7_RateLimitInvisible ==
    [][ pc = "pollPerform" =>
            LET r      == Answer(trace, trace')
                before == Notifications(trace)
                after  == Notifications(trace')
            IN  /\ Is429(r) => after = before /\ pc' = "sleep"
                /\ Is200(r) =>
                       /\ Len(after) = Len(before) + 1
                       /\ after[Len(after)].val.type = "MSG_OAUTH_SUCCESS"
                /\ (~Is429(r) /\ ~Is200(r) /\ ~IsPendingAnswer(r)) =>
                       /\ Len(after) = Len(before) + 1
                       /\ after[Len(after)].val.type = "MSG_OAUTH_FAILED"
      ]_vars

C7_Witness ==
    /\ pc = "sleep"
    /\ Len(trace) >= 2
    /\ trace[Len(trace) - 1].kind = "recv"
    /\ Is429(trace[Len(trace) - 1].val.resp)
    /\ Cardinality(PollAnswersWith(trace, 429)) = 2
    /\ Len(Notifications(trace)) = 2

(***************************************************************************)
(* C8: a poll answered 403 is followed by one MSG_OAUTH_FAILED of kind     *)
(* ERR_AUTH_FAILED and by the return of the call: the session sends no     *)
(* further poll and delivers nothing more.                                 *)
(***************************************************************************)
C8_DeniedIsTerminal ==
    \A i \in PollAnswersWith(trace, 403) :
        /\ Len(trace) = i + 2
        /\ IsFailedWith(trace[i + 1], "ERR_AUTH_FAILED")
        /\ trace[i + 2].kind = "return"
        /\ CountType(trace, "MSG_OAUTH_FAILED") = 1
        /\ CountType(trace, "MSG_OAUTH_SUCCESS") = 0
        /\ pc = "idle"

C8_Witness ==
    /\ PollAnswersWith(trace, 403) # {}
    /\ PendingAnswers(trace) # {}
    /\ Ended(trace)

(***************************************************************************)
(* C9: a poll answered 200 is followed by one MSG_OAUTH_SUCCESS whose      *)
(* token has the server's refresh_token, token_type and access_token and   *)
(* expires at the whole second of the answer plus expires_in, and by the   *)
(* return of the call: no further poll is sent.                            *)
(***************************************************************************)
C9_SuccessIsTerminal ==
    \A i \in PollAnswersWith(trace, 200) :
        LET b == trace[i].val.resp.body
        IN  /\ Len(trace) = i + 2
            /\ IsMsgEv(trace[i + 1], "notify", "MSG_OAUTH_SUCCESS",
                       [refreshToken |-> b.refresh_token,
                        accessToken  |-> b.access_token,
                        tokenType    |-> b.token_type,
                        expiration   |-> (trace[i].val.at \div TicksPerSec) + b.expires_in])
            /\ trace[i + 2].kind = "return"
            /\ CountType(trace, "MSG_OAUTH_SUCCESS") = 1
            /\ CountType(trace, "MSG_OAUTH_FAILED") = 0
            /\ pc = "idle"

C9_Witness ==
    \E i \in PollAnswersWith(trace, 200) :
        /\ trace[i].val.at % TicksPerSec # 0
        /\ trace[i].val.at > TicksPerSec
        /\ trace[i].val.resp.body.expires_in = 7
        /\ Ended(trace)

(***************************************************************************)
(* C10: a poll answered with anything but 200, 400                         *)
(* "authorization_pending" or 429 ends the session with one                *)
(* MSG_OAUTH_FAILED of a kind fixed by the answer: ERR_NETWORK for a       *)
(* transport failure, ERR_PROTOCOL for another 400, ERR_AUTH_FAILED for    *)
(* 403, ERR_UNKNOWN for any other status.                                  *)
(***************************************************************************)
FailureKind(r) ==
    IF r.kind = "transport" THEN "ERR_NETWORK"
    ELSE IF r.status = 400 THEN "ERR_PROTOCOL"
    ELSE IF r.status = 403 THEN "ERR_AUTH_FAILED"
    ELSE "ERR_UNKNOWN"

C10_FailureKinds ==
    \A i \in 3 .. Len(trace) :
        (/\ trace[i].kind = "recv"
         /\ ~Is200(trace[i].val.resp)
         /\ ~Is429(trace[i].val.resp)
         /\ ~IsPendingAnswer(trace[i].val.resp)) =>
            /\ Len(trace) = i + 2
            /\ IsFailedWith(trace[i + 1], FailureKind(trace[i].val.resp))
            /\ trace[i + 2].kind = "return"
            /\ CountType(trace, "MSG_OAUTH_FAILED") = 1
            /\ pc = "idle"

C10_Witness ==
    /\ PollAnswersWith(trace, 401) # {}
    /\ PollAnswersWith(trace, 429) # {}
    /\ Ended(trace)
    /\ IsFailedWith(trace[Len(trace) - 1], "ERR_UNKNOWN")

(***************************************************************************)
(* C11: a refresh answered with 200 sets the token's accessToken and       *)
(* tokenType to the answer's access_token and token_type, its expiration   *)
(* to the time of the answer, in whole seconds, plus expires_in, leaves    *)
(* its refreshToken as it was sent whatever the body holds, and delivers   *)
(* exactly one notification, MSG_OAUTH_SUCCESS carrying that token.        *)
(***************************************************************************)
IsRefresh(tr) == tr # <<>> /\ EntryPoint(tr) = "refreshToken"

RefreshAnswer(tr) == tr[2].val.resp

C11_RefreshUpdatesToken ==
    (IsRefresh(trace) /\ Len(trace) >= 2 /\ Is200(RefreshAnswer(trace))) =>
        /\ token.accessToken = RefreshAnswer(trace).body.access_token
        /\ token.tokenType = RefreshAnswer(trace).body.token_type
        /\ token.expiration =
               (trace[2].val.at \div TicksPerSec) + RefreshAnswer(trace).body.expires_in
        /\ token.refreshToken = trace[1].val.post.refresh_token
        /\ Len(Notifications(trace)) = 1
        /\ IsMsgEv(Notifications(trace)[1], "notify", "MSG_OAUTH_SUCCESS", token)
        /\ Ended(trace)

C11_Witness ==
    /\ IsRefresh(trace)
    /\ Ended(trace)
    /\ Is200(RefreshAnswer(trace))
    /\ Has(RefreshAnswer(trace).body, "refresh_token")
    /\ trace[2].val.at % TicksPerSec # 0
    /\ token.refreshToken = Str(<<"a", "b", "c">>)
    /\ token.accessToken = "AT-3"

(***************************************************************************)
(* C12: a transport failure of the authorization request, of a poll or of  *)
(* a refresh is followed by exactly one notification, MSG_OAUTH_FAILED     *)
(* with ERR_NETWORK, and by the return of the call: no poll is sent after  *)
(* it and the caller's token is what it was before the answer.             *)
(***************************************************************************)
C12_TransportFailure ==
    [][ (/\ Len(trace') > Len(trace)
         /\ trace'[Len(trace) + 1].kind = "recv"
         /\ trace'[Len(trace) + 1].val.resp.kind = "transport") =>
            /\ Len(trace') = Len(trace) + 3
            /\ IsFailedWith(trace'[Len(trace) + 2], "ERR_NETWORK")
            /\ trace'[Len(trace) + 3].kind = "return"
            /\ CountType(trace', "MSG_OAUTH_FAILED") = 1
            /\ NumPolls(trace') = NumPolls(trace)
            /\ pc' = "idle"
            /\ token' = token ]_vars

C12_Witness ==
    /\ IsRefresh(trace)
    /\ Ended(trace)
    /\ RefreshAnswer(trace).kind = "transport"
    /\ token # NoToken
    /\ token.accessToken = "AT-2"
    /\ token.expiration > 7

(***************************************************************************)
(* C13: a refresh answered with a status other than 200 delivers exactly   *)
(* one notification, MSG_OAUTH_FAILED, of kind ERR_CREDENTIALS for 401,    *)
(* ERR_PROTOCOL for 400 and ERR_UNKNOWN for any other status, and then     *)
(* returns: the client sends nothing more.                                 *)
(***************************************************************************)
RefreshFailureKind(status) ==
    IF status = 401 THEN "ERR_CREDENTIALS"
    ELSE IF status = 400 THEN "ERR_PROTOCOL"
    ELSE "ERR_UNKNOWN"

C13_RefreshFailureKinds ==
    (/\ IsRefresh(trace) /\ Len(trace) >= 2
     /\ RefreshAnswer(trace).kind = "http"
     /\ RefreshAnswer(trace).status # 200) =>
        /\ Len(trace) = 4
        /\ IsFailedWith(trace[3], RefreshFailureKind(RefreshAnswer(trace).status))
        /\ IsEv(trace[4], "return", "refreshToken")
        /\ pc = "idle"

C13_Witness ==
    /\ IsRefresh(trace)
    /\ Ended(trace)
    /\ RefreshAnswer(trace).kind = "http"
    /\ RefreshAnswer(trace).status = 403
    /\ IsFailedWith(trace[3], "ERR_UNKNOWN")
    /\ refreshes = 2

(***************************************************************************)
(* C14: a call of refreshToken() sends one request, never sleeps, and      *)
(* delivers no notification before the answer and exactly one after it,    *)
(* MSG_OAUTH_SUCCESS or MSG_OAUTH_FAILED; no step of the call changes      *)
(* self.deviceCode or self.interval.                                       *)
(***************************************************************************)
C14_RefreshBypassesPolling ==
    /\ [](IsRefresh(trace) =>
            /\ Cardinality({i \in 1 .. Len(trace) : trace[i].kind = "send"}) = 1
            /\ \A i \in 1 .. Len(trace) : trace[i].kind # "sleep"
            /\ sleeping = NoAttr
            /\ \A i \in 1 .. Len(Notifications(trace)) :
                   Terminal(Notifications(trace)[i].val.type)
            /\ Len(Notifications(trace)) = IF Ended(trace) THEN 1 ELSE 0)
    /\ [][ (pc = "refreshPerform" \/ pc' = "refreshPerform") =>
              /\ deviceCode' = deviceCode
              /\ interval' = interval ]_vars

C14_Witness ==
    /\ IsRefresh(trace)
    /\ Ended(trace)
    /\ deviceCode = "DC-2"
    /\ interval = 1
    /\ Is200(RefreshAnswer(trace))

(***************************************************************************)
(* C15: an authorization request answered with a status other than 200     *)
(* delivers exactly one notification, MSG_OAUTH_FAILED, of kind            *)
(* ERR_PROTOCOL for 400, ERR_CREDENTIALS for 401 and ERR_UNKNOWN for any   *)
(* other status, and returns: no MSG_VERIFICATION_REQUIRED, no             *)
(* MSG_CLIENT_WAITING, no poll and no second authorization request.        *)
(***************************************************************************)
AuthFailureKind(status) ==
    IF status = 400 THEN "ERR_PROTOCOL"
    ELSE IF status = 401 THEN "ERR_CREDENTIALS"
    ELSE "ERR_UNKNOWN"

C15_AuthFailsOutright ==
    (/\ trace # <<>> /\ EntryPoint(trace) = "requestAuthorization"
     /\ Len(trace) >= 2
     /\ trace[2].val.resp.kind = "http"
     /\ trace[2].val.resp.status # 200) =>
        /\ Len(trace) = 4
        /\ IsFailedWith(trace[3], AuthFailureKind(trace[2].val.resp.status))
        /\ IsEv(trace[4], "return", "requestAuthorization")
        /\ NumPolls(trace) = 0
        /\ pc = "idle"
        /\ sleeping = NoAttr

C15_Witness ==
    /\ trace # <<>>
    /\ EntryPoint(trace) = "requestAuthorization"
    /\ Ended(trace)
    /\ trace[2].val.resp.kind = "http"
    /\ trace[2].val.resp.status = 401
    /\ IsFailedWith(trace[3], "ERR_CREDENTIALS")
    /\ token # NoToken

(***************************************************************************)
(* C16: whatever the server answers to an authorization request, a poll or *)
(* a refresh, a call that has ended has delivered a terminal notification, *)
(* MSG_OAUTH_SUCCESS or MSG_OAUTH_FAILED, as its last one.                 *)
(***************************************************************************)
C16_EveryErrorSurfaced ==
    Ended(trace) =>
        /\ Notifications(trace) # <<>>
        /\ Terminal(Notifications(trace)[Len(Notifications(trace))].val.type)

(***************************************************************************)
(* C17: when the delivery component holds a token and its callback is told *)
(* MSG_OAUTH_FAILED with ERR_CREDENTIALS or ERR_PROTOCOL, the callback     *)
(* calls requestAuthorization(), whose request is sent at once, and emits  *)
(* no MSG_AUTH_FAILED for that failure.                                    *)
(***************************************************************************)
IsEmit(e, msg) == e.kind = "emit" /\ e.val.type = msg

C17_RecoveryRule ==
    [][ \A i \in (Len(trace) + 1) .. Len(trace') :
          (/\ token # NoToken
           /\ \/ IsFailedWith(trace'[i], "ERR_CREDENTIALS")
              \/ IsFailedWith(trace'[i], "ERR_PROTOCOL")) =>
              /\ Len(trace') = i + 2
              /\ IsEv(trace'[i + 1], "call", "requestAuthorization")
              /\ trace'[i + 2].kind = "send"
              /\ trace'[i + 2].val.url = authServer
              /\ pc' = "authPerform"
              /\ \A j \in (Len(trace) + 1) .. Len(trace') :
                     ~IsEmit(trace'[j], "MSG_AUTH_FAILED") ]_vars

C17_Witness ==
    \E i \in 4 .. Len(trace) :
        /\ trace[i].kind = "call"
        /\ IsFailedWith(trace[i - 1], "ERR_PROTOCOL")
        /\ trace[i - 3].kind = "send"
        /\ Has(trace[i - 3].val.post, "code")
        /\ token # NoToken
        /\ pc = "authPerform"

(***************************************************************************)
(* C18: when the callback of the delivery component is told                *)
(* MSG_OAUTH_FAILED with ERR_AUTH_FAILED, ERR_NETWORK or ERR_UNKNOWN, or   *)
(* with any kind while it holds no token, it emits exactly one             *)
(* MSG_AUTH_FAILED, carrying the error string, and the call ends: nothing  *)
(* is sent after the failure.                                              *)
(***************************************************************************)
C18_StopRule ==
    [][ \A i \in (Len(trace) + 1) .. Len(trace') :
          (/\ trace'[i].kind = "notify"
           /\ trace'[i].val.type = "MSG_OAUTH_FAILED"
           /\ \/ token = NoToken
              \/ trace'[i].val.data.error_code
                     \in {"ERR_AUTH_FAILED", "ERR_NETWORK", "ERR_UNKNOWN"}) =>
              /\ Len(trace') > i + 1
              /\ IsMsgEv(trace'[i + 1], "emit", "MSG_AUTH_FAILED",
                         trace'[i].val.data.error_string)
              /\ \A j \in (i + 2) .. Len(trace') : trace'[j].kind = "return"
              /\ Cardinality({j \in (Len(trace) + 1) .. Len(trace') :
                                 IsEmit(trace'[j], "MSG_AUTH_FAILED")}) = 1
              /\ pc' = "idle" ]_vars

C18_Witness ==
    /\ token = NoToken
    /\ Len(trace) = 5
    /\ IsFailedWith(trace[3], "ERR_CREDENTIALS")
    /\ IsEmit(trace[4], "MSG_AUTH_FAILED")
    /\ trace[4].val.data = "invalid_client"
    /\ pc = "idle"

(***************************************************************************)
(* C19: the callback calls requestAuthorization() only after a failed poll *)
(* or a failed refresh, never after a failed authorization request, and    *)
(* at most once during one getAccessToken().                               *)
(***************************************************************************)
C19_FallbackOnlyAfterPollOrRefresh ==
    /\ \A i \in 4 .. Len(trace) :
           trace[i].kind = "call" => trace[i - 3].val.url # authServer
    /\ Reauths(trace) <= 1

(***************************************************************************)
(* C20: whatever the interleaving of the threads that run authorization    *)
(* sessions on one client, there are never two poll requests with the      *)
(* same device code awaiting their answers.                                *)
(***************************************************************************)
InFlight(tr) == tr[Len(tr)].val

C20_NoConcurrentPolls ==
    ~ /\ pc = "pollPerform"
      /\ other.pc = "pollPerform"
      /\ InFlight(trace).post.code = InFlight(other.trace).post.code

(***************************************************************************)
(* C21: a polling loop sends the device code, and sleeps with the          *)
(* interval (plus 2 for each 429 it received), that the authorization      *)
(* request which started it obtained, also when another thread's           *)
(* requestAuthorization() succeeds on the same client meanwhile.           *)
(***************************************************************************)
AuthAnswers(tr) ==
    {j \in 2 .. Len(tr) : /\ tr[j].kind = "recv"
                          /\ tr[j - 1].kind = "send"
                          /\ tr[j - 1].val.url = authServer
                          /\ Is200(tr[j].val.resp)}

\* the place in the trace of the grant that started the loop running at i
SessionGrantAt(tr, i) ==
    CHOOSE j \in AuthAnswers(tr) :
        j < i /\ \A k \in AuthAnswers(tr) : k < i => k <= j

SessionGrant(tr, i) == tr[SessionGrantAt(tr, i)].val.resp.body

RateLimitsSince(tr, j, i) ==
    Cardinality({k \in j .. i : tr[k].kind = "recv" /\ Is429(tr[k].val.resp)})

OwnGrantOnly(tr) ==
    \A i \in 1 .. Len(tr) :
        /\ (tr[i].kind = "send" /\ Has(tr[i].val.post, "code"))
               => tr[i].val.post.code = SessionGrant(tr, i).device_code
        /\ tr[i].kind = "sleep"
               => tr[i].val = SessionGrant(tr, i).interval
                              + 2 * RateLimitsSince(tr, SessionGrantAt(tr, i), i)

C21_GrantOwnedBySession == OwnGrantOnly(trace) /\ OwnGrantOnly(other.trace)

(***************************************************************************)
(* C23: the loop has no retry limit and no deadline.  Whatever the number  *)
(* of polls and the time, a session that was granted has ended exactly     *)
(* when one of its polls got an answer that is neither 400                 *)
(* "authorization_pending" nor 429: that answer is the last of the         *)
(* session, every answer before it is followed by a sleep, and the session *)
(* has delivered one terminal notification if it has ended and none if it  *)
(* has not.                                                                *)
(***************************************************************************)
PollReplies(tr) == {i \in 3 .. Len(tr) : tr[i].kind = "recv"}

KeepsWaiting(r) == Is429(r) \/ IsPendingAnswer(r)

C23_NoRetryLimit ==
    Granted(trace) =>
        LET final == {i \in PollReplies(trace) : ~KeepsWaiting(trace[i].val.resp)}
            terminals == CountType(trace, "MSG_OAUTH_SUCCESS")
                             + CountType(trace, "MSG_OAUTH_FAILED")
        IN  /\ Ended(trace) <=> final # {}
            /\ \A i \in final : \A j \in PollReplies(trace) : j <= i
            /\ \A i \in PollReplies(trace) \ final :
                   /\ Len(trace) > i
                   /\ trace[i + 1].kind = "sleep"
            /\ terminals = IF Ended(trace) THEN 1 ELSE 0
            /\ ~Ended(trace) => pc \in {"sleep", "pollPerform"}

\* a session that ended only at its last allowed poll, after answers of both
\* waiting kinds, and one still polling after as many answers
C23_Witness ==
    /\ Granted(trace)
    /\ Ended(trace)
    /\ Cardinality(PollReplies(trace)) = MaxPolls
    /\ PendingAnswers(trace) # {}
    /\ PollAnswersWith(trace, 429) # {}
    /\ now >= 2 * TicksPerSec * Grant(trace).interval

(***************************************************************************)
(* C24, as claimed: the loop sleeps only between polls, so that every      *)
(* sleep of a session comes after one of its poll requests, and none       *)
(* precedes the first poll.                                                *)
(***************************************************************************)
Sleeps(tr) == {j \in 1 .. Len(tr) : tr[j].kind = "sleep"}

C24_SleepsOnlyBetweenPolls ==
    \A j \in Sleeps(trace) : \E i \in PollsSent(trace) : i < j

(***************************************************************************)
(* C24, amended: the loop sleeps before every poll, the first included.    *)
(* Each poll request comes right after one sleep, which lasts the interval *)
(* of the grant plus 2 for every 429 received before it; each sleep is     *)
(* followed by nothing but the poll request; a poll is answered no earlier *)
(* than that sleep after the answer before it; no sleep follows an answer  *)
(* that ends the loop.                                                     *)
(***************************************************************************)
Replies(tr) == {i \in 2 .. Len(tr) : tr[i].kind = "recv"}

C24_SleepBeforeEveryPoll ==
    Granted(trace) =>
        /\ \A i \in PollsSent(trace) :
               /\ IsEv(trace[i - 1], "sleep", Grant(trace).interval
                       + 2 * Cardinality({k \in PollAnswersWith(trace, 429) : k < i}))
               /\ Cardinality({j \in Sleeps(trace) : j < i})
                      = Cardinality({k \in PollsSent(trace) : k <= i})
        /\ \A j \in Sleeps(trace) :
               /\ trace[j - 1].kind \in {"recv", "notify"}
               /\ Len(trace) > j => trace[j + 1].kind = "send"
               /\ Len(trace) = j => pc = "sleep" /\ sleeping = trace[j].val
        /\ \A i \in PollReplies(trace) :
               ~KeepsWaiting(trace[i].val.resp) => \A j \in Sleeps(trace) : j < i
        /\ \A i, k \in Replies(trace) :
               (i < k /\ \A l \in Replies(trace) : ~(i < l /\ l < k)) =>
                   \E j \in Sleeps(trace) :
                       /\ i < j /\ j < k
                       /\ trace[k].val.at >= trace[i].val.at + trace[j].val * TicksPerSec

\* a session that ended after polls answered 429 and then otherwise: its
\* second sleep is longer than its first, which came before any poll
C24_Witness ==
    /\ Granted(trace)
    /\ Ended(trace)
    /\ Cardinality(PollsSent(trace)) >= 2
    /\ \E j \in Sleeps(trace) : trace[j].val = Grant(trace).interval + 2
    /\ \E j \in Sleeps(trace) : \A i \in PollsSent(trace) : j < i

(***************************************************************************)
(* C25: deserializeToken(serializeToken(t)) raises nothing and gives a     *)
(* token with the refreshToken and the tokenType of t, whatever characters *)
(* they hold; the same for the record sent with MSG_AUTH_SUCCESS and       *)
(* written to the token file.                                              *)
(***************************************************************************)
IsCall(e, name) == e.kind = name

ReadBack(tr, i) ==
    /\ i < Len(tr)
    /\ IsCall(tr[i + 1], "deserializeToken")
    /\ \/ IsCall(tr[i], "serializeToken")
       \/ IsEmit(tr[i], "MSG_AUTH_SUCCESS")

Written(tr, i) == IF IsCall(tr[i], "serializeToken") THEN tr[i].val.token ELSE tr[i - 1].val.data

C25_RoundTrip ==
    \A i \in 1 .. Len(trace) :
        ReadBack(trace, i) =>
            /\ trace[i + 1].val.exc = ""
            /\ trace[i + 1].val.token.refreshToken = Written(trace, i).refreshToken
            /\ trace[i + 1].val.token.tokenType = Written(trace, i).tokenType

\* a token whose refreshToken holds a quote and a backslash, and whose
\* tokenType is a line feed, read back from its serialized form
C25_Witness ==
    /\ Len(trace) = 2
    /\ ReadBack(trace, 1)
    /\ IsCall(trace[1], "serializeToken")
    /\ trace[1].val.token.refreshToken = Str(<<Quote, Backslash>>)
    /\ trace[1].val.token.tokenType = Str(<<LF>>)
    /\ token.refreshToken = Str(<<Quote, Backslash>>)

(***************************************************************************)
(* C26: the serialized record is a function of refreshToken and tokenType  *)
(* alone: a token serializes to the text that any token with the same two  *)
(* fields and another accessToken and expiration serializes to.  This      *)
(* holds of the text returned by serializeToken and of the text sent with  *)
(* MSG_AUTH_SUCCESS, which is what the token file then holds.              *)
(***************************************************************************)
SameButAccess(tok) ==
    {OAuth2Token(tok.refreshToken, tok.tokenType, a, e) :
        a \in {None, "AT-1", "AT-2"}, e \in {0, 7, 3600}}

C26_OnlyRefreshTokenAndType ==
    \A i \in 1 .. Len(trace) :
        /\ IsCall(trace[i], "serializeToken") =>
               \A t2 \in SameButAccess(trace[i].val.token) :
                   serializeToken(t2) = trace[i].val.text
        /\ IsEmit(trace[i], "MSG_AUTH_SUCCESS") =>
               /\ \A t2 \in SameButAccess(trace[i - 1].val.data) :
                      serializeToken(t2) = trace[i].val.data
               /\ i = Len(trace) => serializedToken = Str(trace[i].val.data)

C26_Witness ==
    /\ Len(trace) = 2
    /\ IsEmit(trace[2], "MSG_AUTH_SUCCESS")
    /\ trace[1].val.data.accessToken = "AT-1"
    /\ trace[1].val.data.expiration = 3600
    /\ trace[1].val.data.refreshToken = Str(<<"a", Quote>>)
    /\ serializedToken = Str(serializeToken(OAuth2Token(Str(<<"a", Quote>>),
                                                        trace[1].val.data.tokenType, None, 0)))

(***************************************************************************)
(* C27: a token that deserializeToken returns has accessToken None and     *)
(* expiration 0, whatever other members the record holds and whatever      *)
(* token was held before.                                                  *)
(***************************************************************************)
C27_DeserializedHasNoAccess ==
    \A i \in 1 .. Len(trace) :
        (IsCall(trace[i], "deserializeToken") /\ trace[i].val.exc = "") =>
            /\ trace[i].val.token.accessToken = None
            /\ trace[i].val.token.expiration = 0
            /\ i = Len(trace) => token = trace[i].val.token

\* a record with members accessToken and expiration was deserialized
C27_Witness ==
    /\ Len(trace) = 1
    /\ IsCall(trace[1], "deserializeToken")
    /\ trace[1].val.exc = ""
    /\ Subscript(loads(trace[1].val.text).val, accessTokenKey) = Returned(Str(<<"a">>))
    /\ Subscript(loads(trace[1].val.text).val, expirationKey) = Returned(PyInteger(<<"1", "2">>))
    /\ token.refreshToken = Str(<<Quote>>)

(***************************************************************************)
(* C28: when the text given to the delivery component does not             *)
(* deserialize (it is no JSON, no object, or lacks refreshToken or         *)
(* token_type), the component is constructed with token None, and the      *)
(* first getAccessToken() sends the authorization request, not a refresh.  *)
(***************************************************************************)
BadText ==
    /\ serializedToken # PyNone
    /\ deserializeToken(serializedToken.str).exc # ""

C29_RefreshTokenNeverEmpty ==
    /\ token # NoToken => token.refreshToken # Str(<<>>)
    /\ \A i \in 1 .. Len(trace) :
           (trace[i].kind = "send" /\ Has(trace[i].val.post, "refresh_token"))
               => trace[i].val.post.refresh_token # Str(<<>>)

(***************************************************************************)
(* C30: an uploadPhoto() call that has ended has made exactly one terminal *)
(* callback, MSG_SUCCESS if the answer was 201 and MSG_FAILED otherwise,   *)
(* and every MSG_PROGRESS callback of the call came before it.             *)
(***************************************************************************)
IsUpload(tr) == Len(tr) > 0 /\ tr[1].val.url = uploadUrl

TerminalCallbacks(tr) ==
    {i \in 1 .. Len(tr) : /\ tr[i].kind = "notify"
                          /\ tr[i].val.type \in {"MSG_SUCCESS", "MSG_FAILED"}}

C30_OneTerminalCallback ==
    (IsUpload(trace) /\ pc = "idle") =>
        /\ Cardinality(TerminalCallbacks(trace)) = 1
        /\ \A i \in TerminalCallbacks(trace) :
               /\ trace[i - 1].kind = "recv"
               /\ trace[i].val.type = "MSG_SUCCESS" <=> trace[i - 1].val.resp.kind = "http"
                                                        /\ trace[i - 1].val.resp.status = 201
               /\ \A j \in 1 .. Len(trace) :
                      (trace[j].kind = "notify" /\ trace[j].val.type = "MSG_PROGRESS") => j < i

(***************************************************************************)
(* C22: the GUI thread is never in requestAuthorization(), startPolling()  *)
(* or refreshToken(): it neither awaits the answer of one of their         *)
(* requests nor sleeps between two polls.                                  *)
(***************************************************************************)
GuiThreadPc == IF gui.thread = "main" THEN pc ELSE other.pc

C22_ClientOffGuiThread ==
    GuiThreadPc \notin {"authPerform", "sleep", "pollPerform", "refreshPerform"}


(***************************************************************************)
(* C31: a getAccessToken() that is over has emitted exactly one of         *)
(* MSG_AUTH_SUCCESS and MSG_AUTH_FAILED, and with a stored token and a     *)
(* server that answers every request with 400 or 401 the number of nested  *)
(* requestAuthorization() calls stays below the number that is explored.   *)
(***************************************************************************)
Rejected(tr) ==
    \A i \in 1 .. Len(tr) :
        tr[i].kind = "recv" =>
            /\ tr[i].val.resp.kind = "http"
            /\ tr[i].val.resp.status \in {400, 401}

AuthSignals(tr) ==
    {i \in 1 .. Len(tr) : \/ IsEmit(tr[i], "MSG_AUTH_SUCCESS")
                          \/ IsEmit(tr[i], "MSG_AUTH_FAILED")}

C31_GetAccessTokenCompletes ==
    /\ Ended(trace) => Cardinality(AuthSignals(trace)) = 1
    /\ (token # NoToken /\ Rejected(trace)) => Reauths(trace) < MaxReauths


(***************************************************************************)
(* C32: refreshToken() changes the token it was given only when the answer *)
(* is a 200, and then accessToken, tokenType and expiration are all three  *)
(* assigned from the answer, refreshToken is kept, and MSG_OAUTH_SUCCESS   *)
(* is delivered with the token so changed; every other answer leaves the   *)
(* four fields as they were.                                               *)
(***************************************************************************)
C32_RefreshChangesAllOrNothing ==
    [][ pc = "refreshPerform" =>
            LET r == Answer(trace, trace')
            IN  token' # token =>
                    /\ Is200(r)
                    /\ r.json
                    /\ FirstMissing(r.body, <<"expires_in", "access_token", "token_type">>) = 0
                    /\ token' = [refreshToken |-> token.refreshToken,
                                 accessToken  |-> r.body.access_token,
                                 tokenType    |-> r.body.token_type,
                                 expiration   |-> (now' \div TicksPerSec) + r.body.expires_in]
                    /\ \E i \in (Len(trace) + 1) .. Len(trace') :
                           IsMsgEv(trace'[i], "notify", "MSG_OAUTH_SUCCESS", token')
      ]_vars


(***************************************************************************)
(* C33: a step in which the callback of the delivery component is told     *)
(* MSG_OAUTH_SUCCESS leaves the component holding the token delivered with *)
(* it (after a poll the server's refresh_token, after a refresh the one it *)
(* held) and emits one MSG_AUTH_SUCCESS, which carries the serialization   *)
(* of that token; every other step leaves the held token as it was, and a  *)
(* held token is never replaced by None.                                   *)
(***************************************************************************)
Successes(before, after) ==
    {i \in (Len(before) + 1) .. Len(after) :
        after[i].kind = "notify" /\ after[i].val.type = "MSG_OAUTH_SUCCESS"}

C33_HeldTokenFollowsSuccess ==
    [][ /\ \A i \in Successes(trace, trace') :
               /\ token' = trace'[i].val.data
               /\ pc = "pollPerform" =>
                      token'.refreshToken = Answer(trace, trace').body.refresh_token
               /\ pc = "refreshPerform" => token'.refreshToken = token.refreshToken
               /\ Len(trace') > i
               /\ IsMsgEv(trace'[i + 1], "emit", "MSG_AUTH_SUCCESS", serializeToken(token'))
               /\ Cardinality({j \in (Len(trace) + 1) .. Len(trace') :
                                  IsEmit(trace'[j], "MSG_AUTH_SUCCESS")}) = 1
        /\ Successes(trace, trace') = {} => token' = token
        /\ token # NoToken => token' # NoToken
      ]_vars


(***************************************************************************)
(* C34: the interval and the device code change in two places only.  A     *)
(* poll answered 429 adds exactly 2 to the interval, and no other step of  *)
(* the polling loop changes it, so that it never decreases in a session;   *)
(* an authorization request answered 200 sets the interval and the device  *)
(* code to those of the answer, whatever the interval was before; a failed *)
(* authorization request, a refresh and the start of a call leave both as  *)
(* they were.                                                              *)
(***************************************************************************)
C34_IntervalChanges ==
    [][ /\ pc \in {"idle", "sleep", "refreshPerform"} =>
               interval' = interval /\ deviceCode' = deviceCode
        /\ pc = "pollPerform" =>
               /\ deviceCode' = deviceCode
               /\ interval' = IF Is429(Answer(trace, trace')) THEN interval + 2 ELSE interval
        /\ pc = "authPerform" =>
               IF Is200(Answer(trace, trace'))
               THEN /\ interval' = Answer(trace, trace').body.interval
                    /\ deviceCode' = Answer(trace, trace').body.device_code
               ELSE interval' = interval /\ deviceCode' = deviceCode
      ]_vars

\* a session whose interval was raised by a 429 has ended, and the next
\* session sleeps with the smaller interval of its own grant
C34_Witness ==
    \E i, j \in 1 .. Len(trace) :
        /\ i < j
        /\ trace[i].kind = "recv"
        /\ Is429(trace[i].val.resp)
        /\ trace[j].kind = "recv"
        /\ trace[j - 1].kind = "send"
        /\ trace[j - 1].val.url = authServer
        /\ Is200(trace[j].val.resp)
        /\ trace[j].val.resp.body.interval = 1
        /\ interval = 1
        /\ pc = "sleep"


(***************************************************************************)
(* C35: when saveImage() is over after an upload that was rejected as      *)
(* unauthorized and a getAccessToken() that obtained a token, the upload   *)
(* has been sent again and exactly one photoSaveComplete has been          *)
(* signalled.                                                              *)
(***************************************************************************)
WorkerTrace == IF gui.thread = "worker" THEN trace ELSE other.trace

GuiTrace == IF gui.thread = "main" THEN trace ELSE other.trace

SaveCompletes(tr) == {i \in 1 .. Len(tr) : tr[i].kind = "photoSaveComplete"}

C35_SaveRecovers ==
    (/\ ~gui.saving
     /\ gui.uploads > 0
     /\ WorkerTrace # <<>>
     /\ WorkerTrace[1].val.url = refreshServer
     /\ Emitted(WorkerTrace, "MSG_AUTH_SUCCESS")) =>
        /\ gui.delivered
        /\ Cardinality(SaveCompletes(WorkerTrace)) + Cardinality(SaveCompletes(GuiTrace)) = 1


(***************************************************************************)
(* C36: albumId is assigned only an id that is in the album list held at   *)
(* that moment.  Where the requested id is checked (setAlbumId() with a    *)
(* fresh list, or an album-list fetch answered 200), an id in the list     *)
(* becomes albumId and MSG_REQUEST_SUCCEEDED is emitted, and an id that is *)
(* not in the list, None included, leaves albumId as it was and            *)
(* MSG_ALBUM_LIST is emitted with the list; a fetch answered 401 or 403    *)
(* emits MSG_UNAUTHORIZED and leaves albumId and the list as they were.    *)
(***************************************************************************)
StepEmits(msg, data) ==
    LET first == IF pc = "idle" THEN 1 ELSE Len(trace) + 1
        emits == {i \in first .. Len(trace') : trace'[i].kind = "emit"}
    IN  /\ Cardinality(emits) = 1
        /\ \A i \in emits : IsMsgEv(trace'[i], "emit", msg, data)

C36_AlbumIdFromList ==
    [][ /\ album'.albumId # album.albumId =>
               /\ checkAlbumId(album'.albumList, album'.albumId)
               /\ album'.albumId = album'.requestedAlbumId
        /\ (\/ pc = "idle" /\ pc' = "idle"
            \/ pc = "albumPerform" /\ Is200(Answer(trace, trace'))) =>
               IF \E i \in 1 .. Len(album'.albumList) :
                      album'.albumList[i].albumId = album'.requestedAlbumId
               THEN /\ album'.albumId = album'.requestedAlbumId
                    /\ StepEmits("MSG_REQUEST_SUCCEEDED", None)
               ELSE /\ album'.albumId = album.albumId
                    /\ StepEmits("MSG_ALBUM_LIST", album'.albumList)
        /\ (/\ pc = "albumPerform"
            /\ Answer(trace, trace').kind = "http"
            /\ Answer(trace, trace').status \in {401, 403}) =>
               /\ StepEmits("MSG_UNAUTHORIZED", None)
               /\ album'.albumId = album.albumId
               /\ album'.albumList = album.albumList
      ]_vars

\* an album is chosen from the list that is kept, and a later call asks
\* for an id that the list does not have
C36_Witness ==
    /\ album.albumId = "A1"
    /\ album.requestedAlbumId = "A3"
    /\ Len(album.albumList) = 2
    /\ Len(trace) = 2
    /\ IsMsgEv(trace[1], "emit", "MSG_ALBUM_LIST", album.albumList)

====
